---- MODULE Spec2Model ----
(***************************************************************************)
(* The multiprocess execution core of pydidas: the worker loop             *)
(* app_processor (pydidas/multiprocessing/app_processor_.py), the          *)
(* AppRunner adapter (pydidas/multiprocess/app_runner.py) and the          *)
(* WorkerController the AppRunner derives from.  The WorkerController      *)
(* module itself is not among the sources; its operations (add_tasks,      *)
(* finalize_tasks, start, suspend, stop, the receive loop and the join     *)
(* with timeout) follow section 4.3 of the specification.  The shared      *)
(* result buffer of the workflow-execution Application, whose module is    *)
(* not among the sources either, follows sections 3 and 5 and the          *)
(* behaviour its tests (tests/apps/test_execute_workflow_app.py) assert.   *)
(***************************************************************************)
EXTENDS Naturals, Integers, Sequences, FiniteSets, TLC

\* ---------------------------------------------------------------- bounds
MaxTasks == 2
MaxWorkers == 2
MaxSlots == 2
MaxBudget == 4
MaxShape == 3

TaskIds == 0 .. (MaxTasks - 1)
WorkerIds == 1 .. MaxWorkers
ParamValues == {0, 1}

\* The end-of-input sentinel on the send queue (Python's None), a value
\* that is no task id.
None == -2
\* "no task held yet" for a worker's local _arg, a value that is no task id.
NoArg == -1
\* "no worker" for the holder of a task: an id outside the pool.
Nobody == MaxWorkers + 1
\* The controlling process (the master instance of the Application).
Master == MaxWorkers + 2
\* The processes of a run.
Procs == WorkerIds \cup {Master}

\* The positions of the shared result buffer (buffer_n slots) and the
\* frames of a scan that has one frame more than the buffer has slots.
Slots == 0 .. (MaxSlots - 1)
Frames == 0 .. MaxSlots
\* "no position chosen": an index outside the buffer.
NoSlot == MaxSlots

\* The shared-memory blocks that can be allocated (one by the master and,
\* at worst, one by every worker), and "no block".
Blocks == 0 .. MaxWorkers
NoBlock == MaxWorkers + 1
\* The memory sizes the shared buffer can be configured with, and the
\* sizes the declared result shapes of one frame can add up to.
Budgets == 0 .. MaxBudget
ShapeSizes == 1 .. MaxShape

VARIABLES
    \* ---- WorkerController (pool) state
    poolState,      \* "idle", "running", "suspending", "stopped"
    stopIssued,     \* stop() has been called in this run
    to_process,     \* pending task ids (add_tasks)
    finalized,      \* finalize_tasks() was called
    total,          \* progress denominator
    received,       \* number of task results received
    nWorkers,       \* n_workers of the constructor
    sendQ,          \* _queues['send']
    recvQ,          \* _queues['recv']
    stopQ,          \* number of tokens in the stop queue
    abortedQ,       \* number of acknowledgments in the aborted queue
    fatal,          \* a fatal run error was reported to the caller
    abnormal,       \* the run was marked as aborted abnormally (timeout)
    \* ---- AppRunner state: the Runner's Application
    appTasks,       \* the task ids multiprocessing_get_tasks() returns
    appParam,       \* a Parameter value of the Application
    appStored,      \* [task -> number of multiprocessing_store_results calls]
    appPreRun,      \* number of multiprocessing_pre_run calls
    appPostRun,     \* number of multiprocessing_post_run calls
    connected,      \* results signal connected to store_results
    finalState,     \* the snapshot emitted by final_app_state, or "none"
    appResults,     \* [task -> the payload multiprocessing_store_results got]
    \* ---- one app_processor per worker
    pc,             \* position in app_processor
    arg,            \* local _arg
    carryon,        \* local _app_carryon
    waitForOutput,  \* kwargs["wait_for_output_queue"]
    \* ---- the opaque Application as seen by the workers
    avail,          \* tasks for which multiprocessing_carryon() returns True
    badTask,        \* the task (if any) whose multiprocessing_func misbehaves
    badKind,        \* "raise" or "hang"
    appValid,       \* the object given to the constructor is a BaseApp
    tasksDefined,   \* the task list of the Application has been set up
    \* ---- observation of the run (history)
    fate,           \* [task -> "new", "queued", "held", "pushed",
                    \*          "abandoned", "lost"]
    holder,         \* [task -> worker that dequeued it, or Nobody]
    nres,           \* [task -> number of envelopes pushed for it]
    afterStop,      \* tasks whose envelope was pushed after stop() was issued
    wasDeferred,    \* tasks for which a carryon check returned False
    exitBy,         \* [worker -> "none","stop","sentinel"]
    acks,           \* [worker -> number of acknowledgments pushed]
    progressLog,    \* the progress values emitted, as numerators over total
    ctlLog,         \* the suspend()/stop() calls, <<operation, caller>>
    lastCall,       \* outcome of the last call_app_method / set_app_param
    runLog,         \* the calls of _cycle_pre_run and _cycle_post_run, in order
    \* ---- the shared result buffer of the workflow-execution Application
    flag,           \* [slot -> 0 (free) or 1 (written, not yet consumed)]
    lock,           \* the process holding the flag lock, or NoProc
    slotData,       \* [slot -> the frame whose results the slot holds]
    bufNext,        \* the next frame to be dispatched
    bpc,            \* [worker -> position in multiprocessing_func]
    bufFrame,       \* [worker -> the frame it is working on]
    bufPos,         \* [worker -> _config['buffer_pos'], the slot it chose]
    bufRecv,        \* the results (frame, position) on their way to the master
    mpc,            \* the master's position in multiprocessing_store_results
    writes,         \* [slot -> data writes since its flag was last set to 0]
    consumed,       \* [frame -> the data the master read for it, or NoArg]
    waited,         \* workers whose current write found the buffer full
    \* ---- the start of the run and the Applications built in the workers
    startError,     \* the exception that ended _cycle_pre_run, or "none"
    wApp,           \* [worker -> the Application app_processor built]
    appIndex,       \* the index the Runner's Application is prepared for
    hooks,          \* [worker -> the hooks app_processor has called, in order]
    processorArgs,  \* _processor['args'], the arguments of the worker function
    \* ---- prepare_run of the workflow-execution Application
    budget,         \* the configured size of the shared buffer
    shapeSize,      \* the memory one slot needs for all declared results
    prepPc,         \* [process -> "new", "configured", "sized", "ready",
                    \*             "error"]
    buffer_n,       \* _config['buffer_n'], the computed number of slots
    shmOf,          \* [process -> the block its _config['shared_memory'] is]
    shmCount,       \* the number of shared-memory blocks allocated
    shmFlags        \* [block -> the slots whose flag is 1]

poolVars == <<poolState, stopIssued, to_process, finalized, total, received,
              nWorkers, sendQ, recvQ, stopQ, abortedQ, fatal, abnormal>>
appVars == <<appTasks, appParam, appStored, appPreRun, appPostRun, connected,
             finalState, appResults>>
workerVars == <<pc, arg, carryon, waitForOutput>>
envVars == <<avail, badTask, badKind, appValid, tasksDefined>>
histVars == <<fate, holder, nres, afterStop, wasDeferred, exitBy, acks,
              progressLog, ctlLog, lastCall, runLog>>
bufVars == <<flag, lock, slotData, bufNext, bpc, bufFrame, bufPos, bufRecv,
             mpc, writes, consumed, waited>>
startVars == <<startError, wApp, appIndex, hooks, processorArgs>>
prepVars == <<budget, shapeSize, prepPc, buffer_n, shmOf, shmCount, shmFlags>>
vars == <<poolVars, appVars, workerVars, envVars, histVars, bufVars,
          startVars, prepVars>>

\* ------------------------------------------------------------- helpers
Range(s) == {s[i] : i \in DOMAIN s}

RECURSIVE SeqOf(_, _)
\* the sequence <<x, x, ..., x>> of length n
SeqOf(x, n) == IF n = 0 THEN <<>> ELSE <<x>> \o SeqOf(x, n - 1)

RECURSIVE RangeSeq(_)
\* Python's range(k) as a sequence: <<0, 1, ..., k-1>>
RangeSeq(k) == IF k = 0 THEN <<>> ELSE Append(RangeSeq(k - 1), k - 1)

Spawned == 1 .. nWorkers
Terminated(w) == pc[w] \in {"exited", "crashed", "killed"}
InLoop(w) == pc[w] \in {"poll", "step", "carryon", "func"}

\* The test application's computation: f(x) = x.
multiprocessing_func(t) == t

\* The envelope app_processor puts on the output queue.
Envelope(t) == <<t, multiprocessing_func(t)>>
EndMarker == <<None, None>>

\* The values the caller can give for wait_for_output_queue.
WaitKwargs == {"unset", "True", "False"}

\* line 82: kwargs.get("wait_for_output_queue", True)
wait_for_output_queue(kw) == IF kw = "unset" THEN TRUE ELSE kw = "True"

\* The shared buffer after prepare_run: every slot free, the lock free, no
\* frame dispatched.
BufferInit ==
    /\ flag = [s \in Slots |-> 0]
    /\ lock = Nobody
    /\ slotData = [s \in Slots |-> NoArg]
    /\ bufNext = 0
    /\ bpc = [w \in WorkerIds |-> "idle"]
    /\ bufFrame = [w \in WorkerIds |-> NoArg]
    /\ bufPos = [w \in WorkerIds |-> NoSlot]
    /\ bufRecv = <<>>
    /\ mpc = "idle"
    /\ writes = [s \in Slots |-> 0]
    /\ consumed = [f \in Frames |-> NoArg]
    /\ waited = {}

\* The workflow-execution Application before prepare_run: nothing is
\* configured, sized or allocated.
Unprepared ==
    /\ budget = 0
    /\ shapeSize = 0
    /\ prepPc = [p \in Procs |-> "new"]
    /\ buffer_n = 0
    /\ shmOf = [p \in Procs |-> NoBlock]
    /\ shmCount = 0
    /\ shmFlags = [b \in Blocks |-> {}]

\* A check that accepts every object.
AnyObjectAccepted(valid) == TRUE

\* __check_app_is_set: isinstance(self.__app, BaseApp)
check_app_is_set(valid) == valid

\* __init__: the pool is set up for n_workers, the Application is copied
\* and checked; the TypeError of the check leaves no Runner behind.
AppRunner_init(valid) ==
    IF check_app_is_set(valid) THEN "constructed" ELSE "TypeError"

Init ==
    /\ poolState = "idle"
    /\ stopIssued = FALSE
    /\ to_process = <<>>
    /\ finalized = FALSE
    /\ total = 0
    /\ received = 0
    /\ nWorkers \in WorkerIds
    /\ sendQ = <<>>
    /\ recvQ = <<>>
    /\ stopQ = 0
    /\ abortedQ = 0
    /\ fatal = FALSE
    /\ abnormal = FALSE
    /\ appValid \in BOOLEAN
    /\ tasksDefined \in (IF appValid THEN BOOLEAN ELSE {FALSE})
    /\ appTasks \in (IF tasksDefined THEN {RangeSeq(k) : k \in 0 .. MaxTasks}
                     ELSE {<<>>})
    /\ appParam = 0
    /\ appStored = [t \in TaskIds |-> 0]
    /\ appPreRun = 0
    /\ appPostRun = 0
    /\ connected = FALSE
    /\ finalState = "none"
    /\ pc = [w \in WorkerIds |-> "unborn"]
    /\ arg = [w \in WorkerIds |-> NoArg]
    /\ carryon = [w \in WorkerIds |-> TRUE]
    /\ waitForOutput \in {wait_for_output_queue(kw) : kw \in WaitKwargs}
    /\ avail \in SUBSET Range(appTasks)
    /\ badTask \in Range(appTasks) \cup {NoArg}
    /\ badKind \in IF badTask = NoArg THEN {"none"} ELSE {"raise", "hang"}
    /\ fate = [t \in TaskIds |-> "new"]
    /\ holder = [t \in TaskIds |-> Nobody]
    /\ nres = [t \in TaskIds |-> 0]
    /\ afterStop = {}
    /\ wasDeferred = {}
    /\ exitBy = [w \in WorkerIds |-> "none"]
    /\ acks = [w \in WorkerIds |-> 0]
    /\ progressLog = <<>>
    /\ ctlLog = <<>>
    /\ lastCall = [op |-> "none", running |-> FALSE, outcome |-> "none",
                   changed |-> FALSE, name |-> "none", value |-> NoArg,
                   invoked |-> <<>>, result |-> NoArg]
    /\ appResults = [t \in TaskIds |-> NoArg]
    /\ runLog = <<>>
    /\ BufferInit
    /\ startError = "none"
    /\ wApp = [w \in WorkerIds |->
                 [owner |-> Nobody, param |-> NoArg, index |-> NoArg]]
    /\ appIndex = NoArg
    /\ hooks = [w \in WorkerIds |-> <<>>]
    /\ processorArgs = <<>>
    /\ Unprepared

\* ------------------------------------------------------- app_processor
\* What a worker step leaves alone: everything owned by the controller,
\* the Runner's Application and the environment.
notWorker == <<poolState, stopIssued, to_process, finalized, total, received,
               nWorkers, fatal, abnormal, appVars, waitForOutput, envVars,
               progressLog, ctlLog, lastCall, runLog, bufVars, prepVars>>

\* The loop goes on after the acknowledgment.
PcAfterAckNoBreak == "step"

\* line 94: after the acknowledgment the loop is left (break).
PcAfterAck == "wait_out"

\* A new item is taken on every iteration.
TakesItemAlways(w) == TRUE

\* line 98: a new item is only taken when the last carryon check was True.
TakesItem(w) == carryon[w]

\* A get that leaves the item in the queue.
AfterGetPeek(q) == q

\* line 100: get_nowait removes the head of the input queue.
AfterGet(q) == Tail(q)

\* A carryon check that is only made for a newly taken item: once False it
\* stays False.
StaleCarryon(w) == carryon[w] /\ arg[w] \in avail

\* line 110: multiprocessing_carryon() of the worker's Application: the
\* input of the held task is available.
multiprocessing_carryon(w) == arg[w] \in avail

\* lines 110-111: the position after the carryon check.
PcAfterCarryon(c) == IF c THEN "func" ELSE "poll"

\* The loop goes on after the end marker.
PcAfterSentinelNoBreak == "poll"

\* line 106: after the end marker the loop is left (break).
PcAfterSentinel == "wait_out"

\* An exception that is swallowed: the loop goes on with the next item.
PcAfterRaiseSwallowed == "poll"

\* lines 109-114: nothing catches an exception of pre_cycle, carryon or
\* multiprocessing_func; it ends app_processor and with it the process.
PcAfterRaise == "crashed"

\* A worker that returns without looking at the output queue.
MayReturnAtOnce == TRUE

\* lines 117-118: the worker returns unless it has to wait for the output
\* queue and the queue is not empty.
MayReturn == ~(waitForOutput /\ recvQ # <<>>)

\* A poll that a worker holding a deferred task skips.
SeesTokenUnlessDeferred(w) == stopQ > 0 /\ carryon[w]

\* line 91: stop_queue.get_nowait() returns a token.
SeesToken(w) == stopQ > 0

\* A put that places the envelope ahead of the ones waiting in the queue.
PutResultFirst(q, t) == <<Envelope(t)>> \o q

\* line 114: output_queue.put([_arg, _results]): the envelope is appended
\* to the output queue.
PutResult(q, t) == Append(q, Envelope(t))

\* A sentinel branch that puts nothing on the output queue.
NoEndMarkerPut(q) == q

\* line 106: output_queue.put([None, None])
PutEndMarker(q) == Append(q, EndMarker)

\* line 109: _app.multiprocessing_pre_cycle(_arg) prepares the worker's
\* Application for the index: a write into the Application object the
\* worker uses.  WorkerApps is what it does to the Applications built in
\* the workers, RunnerIndex what it does to the Runner's Application.
WorkerApps(w, t) ==
    [wApp EXCEPT ![w].index = IF wApp[w].owner = w THEN t ELSE @]
RunnerIndex(w, t) == IF wApp[w].owner = w THEN appIndex ELSE t

\* A hook of the worker's Application is called: it is noted in the order
\* of the calls.  A carryon check that returns False again for the same
\* task is noted once.
Called(h, hook, t) ==
    IF hook = "carryon_false" /\ h # <<>> /\ h[Len(h)] = <<hook, t>>
    THEN h ELSE Append(h, <<hook, t>>)

\* line 87: _app.multiprocessing_pre_run(), before the loop is entered.
worker_pre_run(h) == Called(h, "pre_run", NoArg)

\* A loop that prepares the Application for the held task on every
\* iteration.
pre_cycle_on_retry(h, t) == Called(h, "pre_cycle", t)

\* line 98: with the last carryon check False lines 99-109 are skipped and
\* no hook is called before the next carryon check.
skip_pre_cycle(h, t) == h

\* lines 90-96: poll the stop queue; on a token acknowledge and leave the loop.
app_processor_poll(w) ==
    /\ pc[w] = "poll"
    /\ IF SeesToken(w)
       THEN /\ stopQ' = stopQ - 1
            /\ abortedQ' = abortedQ + 1
            /\ pc' = [pc EXCEPT ![w] = PcAfterAck]
            /\ exitBy' = [exitBy EXCEPT ![w] = "stop"]
            /\ acks' = [acks EXCEPT ![w] = @ + 1]
            /\ fate' = [t \in TaskIds |->
                          IF holder[t] = w /\ fate[t] = "held"
                          THEN "abandoned" ELSE fate[t]]
       ELSE /\ pc' = [pc EXCEPT ![w] = "step"]
            /\ UNCHANGED <<stopQ, abortedQ, exitBy, acks, fate>>
    /\ UNCHANGED <<sendQ, recvQ, arg, carryon, holder, nres, afterStop,
                   wasDeferred, startVars>>
    /\ UNCHANGED notWorker

\* lines 98-109: take the next item unless a task is deferred.
app_processor_step(w) ==
    /\ pc[w] = "step"
    /\ IF TakesItem(w)
       THEN IF sendQ = <<>>
            THEN \* queue.Empty: sleep and continue
                 /\ pc' = [pc EXCEPT ![w] = "poll"]
                 /\ UNCHANGED <<sendQ, recvQ, arg, exitBy, fate, holder,
                                wApp, appIndex, hooks>>
            ELSE /\ sendQ' = AfterGet(sendQ)
                 /\ IF Head(sendQ) = None
                    THEN /\ recvQ' = PutEndMarker(recvQ)
                         /\ pc' = [pc EXCEPT ![w] = PcAfterSentinel]
                         /\ exitBy' = [exitBy EXCEPT ![w] = "sentinel"]
                         /\ UNCHANGED <<arg, fate, holder, wApp, appIndex,
                                        hooks>>
                    ELSE /\ arg' = [arg EXCEPT ![w] = Head(sendQ)]
                         /\ fate' = [fate EXCEPT ![Head(sendQ)] = "held"]
                         /\ holder' = [holder EXCEPT ![Head(sendQ)] = w]
                         /\ wApp' = WorkerApps(w, Head(sendQ))
                         /\ appIndex' = RunnerIndex(w, Head(sendQ))
                         /\ hooks' = [hooks EXCEPT ![w] =
                                         Called(@, "pre_cycle", Head(sendQ))]
                         /\ pc' = [pc EXCEPT ![w] = "carryon"]
                         /\ UNCHANGED <<recvQ, exitBy>>
       ELSE /\ pc' = [pc EXCEPT ![w] = "carryon"]
            /\ hooks' = [hooks EXCEPT ![w] = skip_pre_cycle(@, arg[w])]
            /\ UNCHANGED <<sendQ, recvQ, arg, exitBy, fate, holder, wApp,
                           appIndex>>
    /\ UNCHANGED <<stopQ, abortedQ, carryon, nres, afterStop, wasDeferred,
                   acks, startError, processorArgs>>
    /\ UNCHANGED notWorker

\* lines 110-111: ask the Application whether to carry on with _arg.
app_processor_carryon(w) ==
    /\ pc[w] = "carryon"
    /\ carryon' = [carryon EXCEPT ![w] = multiprocessing_carryon(w)]
    /\ pc' = [pc EXCEPT ![w] = PcAfterCarryon(multiprocessing_carryon(w))]
    /\ wasDeferred' = IF multiprocessing_carryon(w) THEN wasDeferred
                      ELSE wasDeferred \cup {arg[w]}
    /\ hooks' = [hooks EXCEPT ![w] =
                    Called(@, IF multiprocessing_carryon(w)
                              THEN "carryon_true" ELSE "carryon_false",
                           arg[w])]
    /\ UNCHANGED <<sendQ, recvQ, stopQ, abortedQ, arg, fate, holder, nres,
                   afterStop, exitBy, acks, startError, wApp, appIndex,
                   processorArgs>>
    /\ UNCHANGED notWorker

\* lines 113-114: compute and put [_arg, _results] on the output queue.  A
\* computation that hangs never takes this step.
app_processor_func(w) ==
    /\ pc[w] = "func"
    /\ ~(arg[w] = badTask /\ badKind = "hang")
    /\ IF arg[w] = badTask /\ badKind = "raise"
       THEN \* the exception propagates and ends the process
            /\ pc' = [pc EXCEPT ![w] = PcAfterRaise]
            /\ fate' = [fate EXCEPT ![arg[w]] = "lost"]
            /\ hooks' = [hooks EXCEPT ![w] = Called(@, "func", arg[w])]
            /\ UNCHANGED <<recvQ, nres, afterStop>>
       ELSE /\ recvQ' = PutResult(recvQ, arg[w])
            /\ pc' = [pc EXCEPT ![w] = "poll"]
            /\ fate' = [fate EXCEPT ![arg[w]] = "pushed"]
            /\ nres' = [nres EXCEPT ![arg[w]] = @ + 1]
            /\ afterStop' = IF stopIssued THEN afterStop \cup {arg[w]}
                            ELSE afterStop
            /\ hooks' = [hooks EXCEPT ![w] =
                            Called(Called(@, "func", arg[w]), "put", arg[w])]
    /\ UNCHANGED <<sendQ, stopQ, abortedQ, arg, carryon, holder, wasDeferred,
                   exitBy, acks, startError, wApp, appIndex, processorArgs>>
    /\ UNCHANGED notWorker

\* lines 117-119: wait for the output queue to be empty, then return.
app_processor_wait(w) ==
    /\ pc[w] = "wait_out"
    /\ MayReturn
    /\ pc' = [pc EXCEPT ![w] = "exited"]
    /\ UNCHANGED <<sendQ, recvQ, stopQ, abortedQ, arg, carryon, fate, holder,
                   nres, afterStop, wasDeferred, exitBy, acks, startVars>>
    /\ UNCHANGED notWorker

app_processor(w) ==
    \/ app_processor_poll(w)
    \/ app_processor_step(w)
    \/ app_processor_carryon(w)
    \/ app_processor_func(w)
    \/ app_processor_wait(w)

\* The Application makes the input of task t available (streaming input).
InputArrives(t) ==
    /\ t \in Range(appTasks) \ avail
    /\ avail' = avail \cup {t}
    /\ UNCHANGED <<poolVars, appVars, workerVars, badTask, badKind, appValid,
                   tasksDefined, histVars, bufVars, startVars, prepVars>>

\* --------------------------------------------------- WorkerController
\* The part of the pool state suspend() and stop() act on.
Ctl == [poolState |-> poolState, stopIssued |-> stopIssued, stopQ |-> stopQ,
        ctlLog |-> ctlLog]

SetCtl(c) ==
    /\ poolState' = c.poolState
    /\ stopIssued' = c.stopIssued
    /\ stopQ' = c.stopQ
    /\ ctlLog' = c.ctlLog

\* suspend(): the pool leaves the running state; workers are not killed and
\* results in flight are still drained.
suspend(c, by) ==
    [c EXCEPT !.poolState = "suspending",
              !.ctlLog = Append(@, <<"suspend", by>>)]

\* stop(): one stop token per worker goes into the stop queue.
stop(c, by) ==
    [c EXCEPT !.poolState = IF @ = "running" THEN "suspending" ELSE @,
              !.stopIssued = TRUE,
              !.stopQ = @ + nWorkers,
              !.ctlLog = Append(@, <<"stop", by>>)]

\* add_tasks(tasks): append to the pending tasks; fails after finalization.
add_tasks(pending, tasks) == pending \o tasks

\* _create_and_start_workers: the send queue is fed with all pending task
\* ids plus one sentinel per worker.
FeedQueue(pending, n) == pending \o SeqOf(None, n)

\* ---------------------------------------------------------- AppRunner
\* A progress value received / total, kept as <<numerator, denominator>>.
Progress(n, d) == <<n, d>>

\* A strict comparison: progress > 1.
ProgressDoneStrict(p) == p[1] > p[2]

\* __check_progress line 168: progress >= 1.
ProgressDone(p) == p[1] >= p[2]

\* A __check_progress that sets the pool state by itself.
check_progress_direct(c, p) ==
    IF ProgressDone(p) THEN [c EXCEPT !.poolState = "stopped"] ELSE c

\* __check_progress: suspend and stop once all results have been received.
check_progress(c, p) ==
    IF ProgressDone(p) THEN stop(suspend(c, "auto"), "auto") ELSE c

\* __check_is_running: _flag_running is set.
check_is_running == poolState = "running"

\* The methods of the bound Application call_app_method can name.
AppMethods == {"set_param_value", "get_param_value"}
MethodNames == AppMethods \cup {"no_such_method"}

\* A check that lets every name pass.
AnyNameAccepted(name) == TRUE

\* __check_app_method_name: hasattr(self.__app, method_name)
check_app_method_name(name) == name \in AppMethods

\* The result of the Application's method: get_param_value returns the
\* value of the Parameter, set_param_value returns None.
MethodResult(name) == IF name = "get_param_value" THEN appParam ELSE None

\* The objects of the Runner's own Application, handed over as they are.
live_app_arguments(w) ==
    [owner |-> Master, param |-> appParam, index |-> appIndex]

\* Arguments that carry the class only: the worker builds an Application
\* with the default value of the Parameter.
class_only_arguments(w) ==
    [owner |-> w, param |-> 0, index |-> appIndex]

\* __get_app_arguments and lines 85-86 of app_processor: the class, a copy
\* of the Parameters and the config are passed to the worker process, which
\* builds an Application of its own from them.
get_app_arguments(w) ==
    [owner |-> w, param |-> appParam, index |-> appIndex]

\* lines 196-197: the tuple __get_app_arguments returns: the class of the
\* Application, a copy of its Parameters and its config.
app_arguments == <<"class", "params_copy", "config">>

\* lines 139-140: (self._queues['send'], self._queues['recv'],
\* *self.__get_app_arguments())
processor_args == <<"send", "recv">> \o app_arguments

\* lines 42-51: the positional parameters of app_processor.
app_processor_parameters ==
    <<"input_queue", "output_queue", "stop_queue", "aborted_queue", "app",
      "app_params", "app_config">>

\* A call func(*args): the i-th argument is bound to the i-th parameter; a
\* parameter without an argument is missing.
BoundTo(args, i) == IF i <= Len(args) THEN args[i] ELSE "missing"

\* The state the Runner's cycle methods act on, one call after the other.
Run == [log |-> runLog, appPreRun |-> appPreRun, appPostRun |-> appPostRun,
        tasks |-> <<>>, to_process |-> to_process, finalized |-> finalized,
        total |-> total, connected |-> connected, sendQ |-> sendQ,
        started |-> FALSE, joined |-> FALSE, finalState |-> finalState,
        error |-> "none"]

\* A call is logged with what the Runner had done when it was made.
Logged(r, call) ==
    Append(r.log, [call |-> call, finalized |-> r.finalized,
                   connected |-> r.connected, started |-> r.started,
                   joined |-> r.joined, post_run |-> r.appPostRun])

\* line 138: self.__app.multiprocessing_pre_run()
multiprocessing_pre_run(r) ==
    [r EXCEPT !.appPreRun = @ + 1, !.log = Logged(r, "pre_run")]

\* line 141: _tasks = self.__app.multiprocessing_get_tasks(); without a
\* task list the call raises a KeyError.
multiprocessing_get_tasks(r) ==
    IF tasksDefined
    THEN [r EXCEPT !.tasks = appTasks, !.log = Logged(r, "get_tasks")]
    ELSE [r EXCEPT !.error = "KeyError", !.log = Logged(r, "get_tasks")]

\* line 142: self.add_tasks(_tasks)
add_tasks_to_pool(r) ==
    [r EXCEPT !.to_process = add_tasks(@, r.tasks),
              !.log = Logged(r, "add_tasks")]

\* line 143: self.finalize_tasks(): the task set is frozen and the progress
\* denominator computed.
finalize_tasks(r) ==
    [r EXCEPT !.finalized = TRUE, !.total = Len(r.to_process),
              !.log = Logged(r, "finalize_tasks")]

\* A Runner that does not connect the results signal.
results_not_connected(r) == r

\* line 144: self.results.connect(self.__app.multiprocessing_store_results)
results_connect(r) ==
    [r EXCEPT !.connected = TRUE, !.log = Logged(r, "results_connect")]

\* line 145: self.progress.connect(self.__check_progress)
progress_connect(r) == [r EXCEPT !.log = Logged(r, "progress_connect")]

\* line 146: self._create_and_start_workers(): the send queue is fed and the
\* workers are started.
create_and_start_workers(r) ==
    [r EXCEPT !.sendQ = FeedQueue(r.to_process, nWorkers), !.started = TRUE,
              !.log = Logged(r, "start_workers")]

\* A pre-run cycle that starts the workers right after pre_run.
PreRunWorkersFirst(r) ==
    progress_connect(results_connect(finalize_tasks(add_tasks_to_pool(
        multiprocessing_get_tasks(create_and_start_workers(
            multiprocessing_pre_run(r)))))))

\* A pre-run cycle that goes on after an exception of get_tasks.
PreRunIgnoringError(r) ==
    create_and_start_workers(progress_connect(results_connect(
        finalize_tasks(add_tasks_to_pool(multiprocessing_get_tasks(
            multiprocessing_pre_run(r)))))))

\* The calls of lines 142-146, made when line 141 has returned.
AfterGetTasks(r) ==
    IF r.error # "none" THEN r
    ELSE create_and_start_workers(progress_connect(results_connect(
             finalize_tasks(add_tasks_to_pool(r)))))

\* lines 138-146: the calls of _cycle_pre_run in the order of the code; an
\* exception of a call ends the method.
PreRunSteps(r) ==
    AfterGetTasks(multiprocessing_get_tasks(multiprocessing_pre_run(r)))

\* start() and _cycle_pre_run: pre_run, the processor arguments, the
\* tasks, the signal connections, then the workers.
cycle_pre_run ==
    /\ AppRunner_init(appValid) = "constructed"
    /\ poolState = "idle"
    /\ startError = "none"
    /\ startError' = PreRunSteps(Run).error
    /\ poolState' = IF PreRunSteps(Run).error = "none" THEN "running"
                    ELSE "idle"
    /\ wApp' = [w \in WorkerIds |->
                  IF w \in Spawned /\ PreRunSteps(Run).started
                  THEN get_app_arguments(w) ELSE wApp[w]]
    /\ processorArgs' = processor_args
    /\ hooks' = [w \in WorkerIds |->
                   IF w \in Spawned /\ PreRunSteps(Run).started
                   THEN worker_pre_run(hooks[w]) ELSE hooks[w]]
    /\ appPreRun' = PreRunSteps(Run).appPreRun
    /\ to_process' = PreRunSteps(Run).to_process
    /\ finalized' = PreRunSteps(Run).finalized
    /\ total' = PreRunSteps(Run).total
    /\ connected' = PreRunSteps(Run).connected
    /\ sendQ' = PreRunSteps(Run).sendQ
    /\ runLog' = PreRunSteps(Run).log
    /\ pc' = [w \in WorkerIds |->
                IF w \in Spawned /\ PreRunSteps(Run).started
                THEN "poll" ELSE pc[w]]
    /\ fate' = [t \in TaskIds |->
                  IF t \in Range(PreRunSteps(Run).sendQ)
                  THEN "queued" ELSE fate[t]]
    /\ UNCHANGED <<stopIssued, received, nWorkers, recvQ, stopQ, abortedQ,
                   fatal, abnormal, appTasks, appParam, appStored, appPostRun,
                   finalState, appResults, arg, carryon, waitForOutput,
                   envVars, holder, nres, afterStop, wasDeferred, exitBy,
                   acks, progressLog, ctlLog, lastCall, bufVars, appIndex,
                   prepVars>>

\* The controller takes one envelope from the recv queue.  An end marker
\* is dropped; a task result is counted, emitted on the results signal
\* (connected to multiprocessing_store_results) and followed by the
\* progress signal (connected to __check_progress).
receive_result ==
    /\ poolState \in {"running", "suspending"}
    /\ recvQ # <<>>
    /\ recvQ' = Tail(recvQ)
    /\ IF Head(recvQ) = EndMarker
       THEN UNCHANGED <<received, appStored, appResults, progressLog,
                        poolState, stopIssued, stopQ, ctlLog>>
       ELSE /\ received' = received + 1
            /\ appStored' = IF connected
                            THEN [appStored EXCEPT ![Head(recvQ)[1]] = @ + 1]
                            ELSE appStored
            /\ appResults' = IF connected
                             THEN [appResults EXCEPT
                                      ![Head(recvQ)[1]] = Head(recvQ)[2]]
                             ELSE appResults
            /\ progressLog' = Append(progressLog, received + 1)
            /\ SetCtl(check_progress(Ctl, Progress(received + 1, total)))
    /\ UNCHANGED <<to_process, finalized, total, nWorkers, sendQ, abortedQ,
                   fatal, abnormal, appTasks, appParam, appPreRun, appPostRun,
                   connected, finalState, workerVars, envVars, fate, holder,
                   nres, afterStop, wasDeferred, exitBy, acks, lastCall,
                   runLog, bufVars, startVars, prepVars>>

\* suspend() called by the user.
user_suspend ==
    /\ poolState = "running"
    /\ SetCtl(suspend(Ctl, "user"))
    /\ UNCHANGED <<to_process, finalized, total, received, nWorkers, sendQ,
                   recvQ, abortedQ, fatal, abnormal, appVars, workerVars,
                   envVars, fate, holder, nres, afterStop, wasDeferred,
                   exitBy, acks, progressLog, lastCall, runLog, bufVars,
                   startVars, prepVars>>

\* stop() called by the user.
user_stop ==
    /\ poolState \in {"running", "suspending"}
    /\ ~stopIssued
    /\ SetCtl(stop(Ctl, "user"))
    /\ UNCHANGED <<to_process, finalized, total, received, nWorkers, sendQ,
                   recvQ, abortedQ, fatal, abnormal, appVars, workerVars,
                   envVars, fate, holder, nres, afterStop, wasDeferred,
                   exitBy, acks, progressLog, lastCall, runLog, bufVars,
                   startVars, prepVars>>

\* A worker that died unexpectedly is a fatal run failure: it is reported
\* and the pool is stopped; the task is not retried.
detect_dead_worker ==
    /\ poolState \in {"running", "suspending"}
    /\ ~fatal
    /\ \E w \in Spawned : pc[w] = "crashed"
    /\ fatal' = TRUE
    /\ SetCtl(IF stopIssued THEN Ctl ELSE stop(Ctl, "fatal"))
    /\ UNCHANGED <<to_process, finalized, total, received, nWorkers, sendQ,
                   recvQ, abortedQ, abnormal, appVars, workerVars, envVars,
                   fate, holder, nres, afterStop, wasDeferred, exitBy, acks,
                   progressLog, lastCall, runLog, bufVars, startVars, prepVars>>

\* A timeout that terminates nobody.
NoneForceTerminated == {}

\* The workers a join timeout terminates by force.
ForceTerminated == {w \in Spawned : ~Terminated(w)}

\* The bounded wait of stop() elapses: every worker still alive is
\* terminated by force and the run is marked as aborted abnormally.
join_timeout ==
    /\ stopIssued
    /\ poolState = "suspending"
    /\ ForceTerminated # {}
    /\ pc' = [w \in WorkerIds |->
                IF w \in ForceTerminated THEN "killed" ELSE pc[w]]
    /\ abnormal' = TRUE
    /\ fate' = [t \in TaskIds |->
                  IF fate[t] = "held" /\ holder[t] \in ForceTerminated
                  THEN "lost" ELSE fate[t]]
    /\ UNCHANGED <<poolState, stopIssued, to_process, finalized, total,
                   received, nWorkers, sendQ, recvQ, stopQ, abortedQ, fatal,
                   appVars, arg, carryon, waitForOutput, envVars, holder,
                   nres, afterStop, wasDeferred, exitBy, acks, progressLog,
                   ctlLog, lastCall, runLog, bufVars, startVars, prepVars>>

\* A join that does not wait for the results in flight to be drained.
JoinReturnsUndrained ==
    /\ stopIssued
    /\ \A w \in Spawned : Terminated(w)

\* The condition under which the run loop reaches _cycle_post_run: stop()
\* was issued, the results in flight are drained and _join_workers returns.
JoinReturns ==
    /\ stopIssued
    /\ recvQ = <<>>
    /\ \A w \in Spawned : Terminated(w)

\* line 153: self._join_workers() returns with the worker processes joined.
join_workers(r) ==
    [r EXCEPT !.joined = \A w \in Spawned : Terminated(w),
              !.log = Logged(r, "join_workers")]

\* line 154: self.__app.multiprocessing_post_run()
multiprocessing_post_run(r) ==
    [r EXCEPT !.appPostRun = @ + 1, !.log = Logged(r, "post_run")]

\* line 155: self.__app.copy(): an instance of its own that holds the
\* Application's values of the moment of the call.
app_copy(r) ==
    [alias |-> FALSE, param |-> appParam, stored |-> appStored,
     post_run |-> r.appPostRun]

\* line 155: self.final_app_state.emit(self.__app.copy())
final_app_state_emit(r) ==
    [r EXCEPT !.finalState = app_copy(r),
              !.log = Logged(r, "final_app_state")]

\* A post-run cycle that emits the final state first and joins last.
PostRunEmitFirst(r) ==
    join_workers(multiprocessing_post_run(final_app_state_emit(r)))

\* A post-run cycle that calls post_run while the workers are not joined.
PostRunBeforeJoin(r) ==
    final_app_state_emit(join_workers(multiprocessing_post_run(r)))

\* lines 153-155: the calls of _cycle_post_run in the order of the code.
PostRunSteps(r) ==
    final_app_state_emit(multiprocessing_post_run(join_workers(r)))

\* _cycle_post_run: join the workers (a worker found dead with a nonzero
\* exit code is a fatal run failure), post_run, emit the final state.
cycle_post_run ==
    /\ poolState = "suspending"
    /\ JoinReturns
    /\ fatal' = (fatal \/ \E w \in Spawned : pc[w] = "crashed")
    /\ \E done \in {PostRunSteps(Run)} :
          /\ appPostRun' = done.appPostRun
          /\ finalState' = done.finalState
          /\ runLog' = done.log
    /\ poolState' = "stopped"
    /\ UNCHANGED <<stopIssued, to_process, finalized, total, received,
                   nWorkers, sendQ, recvQ, stopQ, abortedQ, abnormal,
                   appTasks, appParam, appStored, appPreRun, connected,
                   appResults, workerVars, envVars, fate, holder, nres,
                   afterStop, wasDeferred, exitBy, acks, progressLog, ctlLog,
                   lastCall, bufVars, startVars, prepVars>>

\* call_app_method(method_name, value)
call_app_method(name, v) ==
    /\ AppRunner_init(appValid) = "constructed"
    /\ IF check_is_running
       THEN /\ lastCall' = [op |-> "call_app_method", running |-> TRUE,
                            outcome |-> "RuntimeError", changed |-> FALSE,
                            name |-> name, value |-> v, invoked |-> <<>>,
                            result |-> NoArg]
            /\ UNCHANGED appParam
       ELSE IF ~check_app_method_name(name)
       THEN /\ lastCall' = [op |-> "call_app_method", running |-> FALSE,
                            outcome |-> "KeyError", changed |-> FALSE,
                            name |-> name, value |-> v, invoked |-> <<>>,
                            result |-> NoArg]
            /\ UNCHANGED appParam
       ELSE /\ appParam' = IF name = "set_param_value" THEN v ELSE appParam
            /\ lastCall' = [op |-> "call_app_method", running |-> FALSE,
                            outcome |-> "ok",
                            changed |-> (name = "set_param_value"
                                         /\ v # appParam),
                            name |-> name, value |-> v,
                            invoked |-> <<name>>,
                            result |-> MethodResult(name)]
    /\ UNCHANGED <<poolVars, appTasks, appStored, appPreRun, appPostRun,
                   connected, finalState, appResults, workerVars, envVars,
                   fate, holder, nres, afterStop, wasDeferred, exitBy, acks,
                   progressLog, ctlLog, runLog, bufVars, startVars, prepVars>>

\* set_app_param(param_name, value): __check_app_is_set, then the value is
\* set.
set_app_param(v) ==
    /\ AppRunner_init(appValid) = "constructed"
    /\ appParam' = v
    /\ lastCall' = [op |-> "set_app_param", running |-> check_is_running,
                    outcome |-> "ok", changed |-> (v # appParam),
                    name |-> "set_param_value", value |-> v,
                    invoked |-> <<"set_param_value">>, result |-> None]
    /\ UNCHANGED <<poolVars, appTasks, appStored, appPreRun, appPostRun,
                   connected, finalState, appResults, workerVars, envVars,
                   fate, holder, nres, afterStop, wasDeferred, exitBy, acks,
                   progressLog, ctlLog, runLog, bufVars, startVars, prepVars>>

\* ------------------------------------------------------ specification
\* One run of the pool: the Runner's cycle, the workers, the user's
\* suspend() and stop(), and the Application's environment.
Next ==
    \/ cycle_pre_run
    \/ receive_result
    \/ user_suspend
    \/ user_stop
    \/ detect_dead_worker
    \/ join_timeout
    \/ cycle_post_run
    \/ \E w \in WorkerIds : app_processor(w)
    \/ \E t \in TaskIds : InputArrives(t)

Spec == Init /\ [][Next]_vars

\* Every process is scheduled: each worker keeps taking steps, the
\* controller keeps serving its receive loop, notices a dead worker, lets
\* the join timeout elapse and finishes its post-run cycle.  The user's
\* suspend() and stop() and the arrival of inputs are not forced.
Fairness ==
    /\ \A w \in WorkerIds : WF_vars(app_processor(w))
    /\ WF_vars(receive_result)
    /\ WF_vars(detect_dead_worker)
    /\ WF_vars(join_timeout)
    /\ WF_vars(cycle_post_run)

FairSpec == Spec /\ Fairness

\* As FairSpec, and every awaited input eventually arrives.
FairInputSpec == FairSpec /\ \A t \in TaskIds : WF_vars(InputArrives(t))

\* The workers are scheduled and every awaited input arrives; nothing is
\* assumed of the controller, which may never take a result.
WorkerFairSpec ==
    /\ Spec
    /\ \A w \in WorkerIds : WF_vars(app_processor(w))
    /\ \A t \in TaskIds : WF_vars(InputArrives(t))

\* The Runner's methods called by the user at any time of a run, for a
\* pool of fewer workers and tasks than Spec explores.
ApiInit ==
    /\ Init
    /\ nWorkers < MaxWorkers
    /\ Len(appTasks) < MaxTasks

ApiNext ==
    \/ Next
    \/ \E name \in MethodNames, v \in ParamValues : call_app_method(name, v)
    \/ \E v \in ParamValues : set_app_param(v)

ApiSpec == ApiInit /\ [][ApiNext]_vars

\* A full pool on MaxTasks tasks whose inputs are all there, with the user
\* setting the Parameter of the Runner's Application at any time of the run.
IsoInit ==
    /\ Init
    /\ nWorkers = MaxWorkers
    /\ Len(appTasks) = MaxTasks
    /\ avail = Range(appTasks)
    /\ badTask = NoArg
    /\ waitForOutput

IsoNext ==
    \/ cycle_pre_run
    \/ receive_result
    \/ user_suspend
    \/ user_stop
    \/ join_timeout
    \/ cycle_post_run
    \/ \E w \in WorkerIds : app_processor(w)
    \/ \E v \in ParamValues : set_app_param(v)

IsoSpec == IsoInit /\ [][IsoNext]_vars

\* ------------------------------------------------ shared result buffer
\* The workflow-execution Application: every worker (a slave-mode instance)
\* writes the results of a frame into a free slot of the shared buffer and
\* returns the slot position; the master instance reads the slot and frees
\* it.  Every access to the flag array is made under the flag lock.
runVars == <<poolVars, appVars, workerVars, envVars, histVars, startVars>>

\* The data a frame's processing produces.
FrameData(f) == f

\* The least element of a non-empty set of positions (np.where(...)[0][0]).
MinSlot(S) == CHOOSE s \in S : \A u \in S : s <= u

\* A scan that takes every slot for free.
AllSlotsFree == Slots

\* The slots whose occupancy flag is 0.
FreeSlots == {s \in Slots : flag[s] = 0}

\* A writer that overwrites the first slot when the buffer is full.
ChosenSlotOverwrite == IF FreeSlots = {} THEN MinSlot(Slots)
                       ELSE MinSlot(FreeSlots)

\* The position a writer chooses: the first free slot, none when all flags
\* are 1.
ChosenSlot == IF FreeSlots = {} THEN NoSlot ELSE MinSlot(FreeSlots)

\* An acquire that does not wait for the lock.
LockIgnored == TRUE

\* The flag lock can be acquired.
LockFree == lock = Nobody

\* release() by process p.
Released(p) == IF lock = p THEN Nobody ELSE lock

\* A store_results that does not look at slave_mode.
NeverReturnsEarly(slave) == FALSE

\* multiprocessing_store_results returns at once on a slave-mode instance.
ReturnsEarly(slave) == slave

\* The flags after multiprocessing_store_results(frame, pos).
StoreFlags(slave, pos) ==
    IF ReturnsEarly(slave) THEN flag ELSE [flag EXCEPT ![pos] = 0]

\* A worker takes the next frame and processes it (execute_process).
buf_take(w) ==
    /\ bpc[w] = "idle"
    /\ bufNext \in Frames
    /\ bufFrame' = [bufFrame EXCEPT ![w] = bufNext]
    /\ bufNext' = bufNext + 1
    /\ bpc' = [bpc EXCEPT ![w] = "acquire"]
    /\ UNCHANGED <<flag, lock, slotData, bufPos, bufRecv, mpc, writes,
                   consumed, waited>>
    /\ UNCHANGED <<runVars, prepVars>>

\* Writing the results: the flag lock is acquired.
buf_acquire(w) ==
    /\ bpc[w] = "acquire"
    /\ LockFree
    /\ lock' = w
    /\ bpc' = [bpc EXCEPT ![w] = "scan"]
    /\ UNCHANGED <<flag, slotData, bufNext, bufFrame, bufPos, bufRecv, mpc,
                   writes, consumed, waited>>
    /\ UNCHANGED <<runVars, prepVars>>

\* The flags are read.  With all flags 1 the lock is released and the
\* writer tries again after a sleep; otherwise the first free slot is taken.
buf_scan(w) ==
    /\ bpc[w] = "scan"
    /\ IF ChosenSlot = NoSlot
       THEN /\ lock' = Released(w)
            /\ bpc' = [bpc EXCEPT ![w] = "acquire"]
            /\ waited' = waited \cup {w}
            /\ UNCHANGED bufPos
       ELSE /\ bufPos' = [bufPos EXCEPT ![w] = ChosenSlot]
            /\ bpc' = [bpc EXCEPT ![w] = "write"]
            /\ UNCHANGED <<lock, waited>>
    /\ UNCHANGED <<flag, slotData, bufNext, bufFrame, bufRecv, mpc, writes,
                   consumed>>
    /\ UNCHANGED <<runVars, prepVars>>

\* The flag of the chosen slot is set to 1, the results are written into
\* the slot and the lock is released; multiprocessing_func returns the
\* position.
buf_write(w) ==
    /\ bpc[w] = "write"
    /\ flag' = [flag EXCEPT ![bufPos[w]] = 1]
    /\ slotData' = [slotData EXCEPT ![bufPos[w]] = FrameData(bufFrame[w])]
    /\ writes' = [writes EXCEPT ![bufPos[w]] = @ + 1]
    /\ lock' = Released(w)
    /\ bpc' = [bpc EXCEPT ![w] = "return"]
    /\ UNCHANGED <<bufNext, bufFrame, bufPos, bufRecv, mpc, consumed, waited>>
    /\ UNCHANGED <<runVars, prepVars>>

\* multiprocessing_store_results(frame, pos) called on the worker's own,
\* slave-mode instance.
buf_slave_store(w) ==
    /\ bpc[w] = "return"
    /\ flag' = StoreFlags(TRUE, bufPos[w])
    /\ bpc' = [bpc EXCEPT ![w] = "stored"]
    /\ UNCHANGED <<lock, slotData, bufNext, bufFrame, bufPos, bufRecv, mpc,
                   writes, consumed, waited>>
    /\ UNCHANGED <<runVars, prepVars>>

\* The worker loop puts (frame, position) on the output queue.
buf_push(w) ==
    /\ bpc[w] \in {"return", "stored"}
    /\ bufRecv' = Append(bufRecv, <<bufFrame[w], bufPos[w]>>)
    /\ bpc' = [bpc EXCEPT ![w] = "idle"]
    /\ bufFrame' = [bufFrame EXCEPT ![w] = NoArg]
    /\ waited' = waited \ {w}
    /\ UNCHANGED <<flag, lock, slotData, bufNext, bufPos, mpc, writes,
                   consumed>>
    /\ UNCHANGED <<runVars, prepVars>>

\* The master receives a result: multiprocessing_store_results(frame, pos)
\* on the master instance acquires the flag lock.
master_acquire ==
    /\ mpc = "idle"
    /\ bufRecv # <<>>
    /\ LockFree
    /\ lock' = Master
    /\ mpc' = "store"
    /\ UNCHANGED <<flag, slotData, bufNext, bpc, bufFrame, bufPos, bufRecv,
                   writes, consumed, waited>>
    /\ UNCHANGED <<runVars, prepVars>>

\* The master copies the slot's data, sets its flag back to 0 and releases
\* the lock.
master_store ==
    /\ mpc = "store"
    /\ consumed' = [consumed EXCEPT
                       ![Head(bufRecv)[1]] = slotData[Head(bufRecv)[2]]]
    /\ flag' = StoreFlags(FALSE, Head(bufRecv)[2])
    /\ writes' = [writes EXCEPT ![Head(bufRecv)[2]] = 0]
    /\ bufRecv' = Tail(bufRecv)
    /\ lock' = Released(Master)
    /\ mpc' = "idle"
    /\ UNCHANGED <<slotData, bufNext, bpc, bufFrame, bufPos, waited>>
    /\ UNCHANGED <<runVars, prepVars>>

buf_worker(w) ==
    \/ buf_take(w)
    \/ buf_acquire(w)
    \/ buf_scan(w)
    \/ buf_write(w)
    \/ buf_slave_store(w)
    \/ buf_push(w)

BufNext ==
    \/ \E w \in WorkerIds : buf_worker(w)
    \/ master_acquire
    \/ master_store

\* A pool of MaxWorkers workers on the shared buffer; the queues of the
\* pool are left aside.
BufInit ==
    /\ Init
    /\ nWorkers = MaxWorkers
    /\ tasksDefined
    /\ appTasks = <<>>
    /\ waitForOutput

BufSpec == BufInit /\ [][BufNext]_vars

\* Every process is scheduled, and a process that asks for the flag lock
\* again and again gets it.
BufFairness ==
    /\ \A w \in WorkerIds :
          /\ SF_vars(buf_acquire(w))
          /\ WF_vars(buf_scan(w))
          /\ WF_vars(buf_write(w))
          /\ WF_vars(buf_push(w))
    /\ SF_vars(master_acquire)
    /\ WF_vars(master_store)

BufFairSpec == BufSpec /\ BufFairness

\* ------------------------------------------------- prepare_run
\* prepare_run of the workflow-execution Application.  On the master it
\* computes the number of buffer slots from the configured buffer size and
\* the declared result shapes and allocates the shared memory; a copy of
\* the Application made for a worker takes over the master's config and
\* with it the shared memory.
\* The number of datasets of size n that fit into a buffer of size b.
buffer_slots(b, n) == b \div n

\* A sizing that accepts every slot count.
FitsAlways(n) == TRUE

\* The declared results fit: the buffer holds at least one dataset.
FitsBudget(n) == n >= 1

\* An initialisation that allocates a new block whatever the config holds.
FreshBlock(cur) == shmCount

\* The block the instance uses after its shared memory was initialised: the
\* one its config already refers to, a newly allocated one if there is none.
AttachedBlock(cur) == IF cur = NoBlock THEN shmCount ELSE cur

\* The user configures the buffer size, and the workflow declares the
\* shapes of its results.
configure(b, n) ==
    /\ prepPc[Master] = "new"
    /\ budget' = b
    /\ shapeSize' = n
    /\ prepPc' = [prepPc EXCEPT ![Master] = "configured"]
    /\ UNCHANGED <<buffer_n, shmOf, shmCount, shmFlags>>
    /\ UNCHANGED <<runVars, bufVars>>

\* __check_size_of_results_and_calc_buffer_size: the slot count is stored,
\* or the AppConfigError raised when the results do not fit.
check_size_of_results_and_calc_buffer_size ==
    /\ prepPc[Master] = "configured"
    /\ IF FitsBudget(buffer_slots(budget, shapeSize))
       THEN /\ buffer_n' = buffer_slots(budget, shapeSize)
            /\ prepPc' = [prepPc EXCEPT ![Master] = "sized"]
       ELSE /\ prepPc' = [prepPc EXCEPT ![Master] = "error"]
            /\ UNCHANGED buffer_n
    /\ UNCHANGED <<budget, shapeSize, shmOf, shmCount, shmFlags>>
    /\ UNCHANGED <<runVars, bufVars>>

\* __initialize_shared_memory on the master: the buffers and the flag
\* array are allocated.
initialize_shared_memory ==
    /\ prepPc[Master] = "sized"
    /\ shmOf' = [shmOf EXCEPT ![Master] = AttachedBlock(shmOf[Master])]
    /\ shmCount' = IF AttachedBlock(shmOf[Master]) = shmCount
                   THEN shmCount + 1 ELSE shmCount
    /\ prepPc' = [prepPc EXCEPT ![Master] = "ready"]
    /\ UNCHANGED <<budget, shapeSize, buffer_n, shmFlags>>
    /\ UNCHANGED <<runVars, bufVars>>

\* A copy of the prepared Application is made for worker w (get_copy) and
\* prepared there: the copy has the config of the master, and prepare_run
\* leaves it with the shared memory that config refers to.
slave_prepare_run(w) ==
    /\ prepPc[Master] = "ready"
    /\ prepPc[w] = "new"
    /\ shmOf' = [shmOf EXCEPT ![w] = AttachedBlock(shmOf[Master])]
    /\ shmCount' = IF AttachedBlock(shmOf[Master]) = shmCount
                   THEN shmCount + 1 ELSE shmCount
    /\ prepPc' = [prepPc EXCEPT ![w] = "ready"]
    /\ UNCHANGED <<budget, shapeSize, buffer_n, shmFlags>>
    /\ UNCHANGED <<runVars, bufVars>>

\* The worker's instance sets the flag of slot k in its flag array.
slave_set_flag(w, k) ==
    /\ prepPc[w] = "ready"
    /\ k < buffer_n
    /\ k \notin shmFlags[shmOf[w]]
    /\ shmFlags' = [shmFlags EXCEPT ![shmOf[w]] = @ \cup {k}]
    /\ UNCHANGED <<budget, shapeSize, prepPc, buffer_n, shmOf, shmCount>>
    /\ UNCHANGED <<runVars, bufVars>>

\* The master's instance reads the flag of slot k in its flag array as 1
\* and sets it to 0.
master_clear_flag(k) ==
    /\ prepPc[Master] = "ready"
    /\ k \in shmFlags[shmOf[Master]]
    /\ shmFlags' = [shmFlags EXCEPT ![shmOf[Master]] = @ \ {k}]
    /\ UNCHANGED <<budget, shapeSize, prepPc, buffer_n, shmOf, shmCount>>
    /\ UNCHANGED <<runVars, bufVars>>

PrepNext ==
    \/ \E b \in Budgets, n \in ShapeSizes : configure(b, n)
    \/ check_size_of_results_and_calc_buffer_size
    \/ initialize_shared_memory
    \/ \E w \in WorkerIds : slave_prepare_run(w)
    \/ \E w \in WorkerIds, k \in 0 .. (MaxBudget - 1) : slave_set_flag(w, k)
    \/ \E k \in 0 .. (MaxBudget - 1) : master_clear_flag(k)

\* A pool of MaxWorkers workers before prepare_run; the queues of the pool
\* are left aside.
PrepInit ==
    /\ Init
    /\ nWorkers = MaxWorkers
    /\ tasksDefined
    /\ appTasks = <<>>
    /\ waitForOutput

PrepSpec == PrepInit /\ [][PrepNext]_vars

\* ---------------------------------------------------------- observers
\* The number of occurrences of x in the sequence q.
CountIn(q, x) == Cardinality({i \in DOMAIN q : q[i] = x})

\* Worker w holds task t: it has dequeued t and not yet pushed its result.
Holds(w, t) ==
    /\ arg[w] = t
    /\ \/ pc[w] \in {"carryon", "func"}
       \/ pc[w] \in {"poll", "step"} /\ ~carryon[w]

HeldCount(t) == Cardinality({w \in Spawned : Holds(w, t)})

\* stop() was called by the user, or after a fatal error.
StoppedEarly ==
    \E i \in DOMAIN ctlLog : ctlLog[i][1] = "stop" /\ ctlLog[i][2] # "auto"

\* No computation fails or hangs in this run.
NoFailure == badTask = NoArg

\* ------------------------------------------------------------- claims
\* C1: in a run that is not stopped early and in which no computation
\* fails, every submitted task id is at any time in exactly one place (the
\* send queue, the hands of one worker, or one result envelope), no
\* envelope carries an id outside the submitted set, and when the pool has
\* stopped exactly one envelope was pushed for each of the K submitted ids.
C1_ExactlyOneResultPerTask ==
    (NoFailure /\ ~StoppedEarly /\ poolState # "idle") =>
        /\ \A t \in TaskIds \ Range(to_process) : nres[t] = 0
        /\ \A t \in Range(to_process) :
              CountIn(sendQ, t) + HeldCount(t) + nres[t] = 1
        /\ poolState = "stopped" =>
              \A t \in Range(to_process) : nres[t] = 1

\* C1 witness: a full run of MaxTasks tasks shared by two workers has
\* stopped by itself.
C1_Witness ==
    /\ NoFailure /\ ~StoppedEarly /\ ~abnormal
    /\ poolState = "stopped"
    /\ Len(to_process) = MaxTasks
    /\ nWorkers > 1
    /\ \E t1, t2 \in TaskIds : holder[t1] # holder[t2]
    /\ \A t \in TaskIds : nres[t] = 1

\* C2 as stated: every task id a worker has removed from the send queue has,
\* once the pool has stopped, exactly one result envelope, or the run ended
\* with a fatal error or an abnormal abort.
C2_NoDequeuedTaskWithoutResultOrError ==
    poolState = "stopped" =>
        \A t \in TaskIds :
            holder[t] # Nobody => (nres[t] = 1 \/ fatal \/ abnormal)

\* C2 amended: a dequeued task id never has more than one envelope and is
\* at any time in exactly one of four conditions: held by its worker inside
\* the loop; answered by exactly one envelope; lost with a worker that died
\* or was terminated by force, which the stopped pool reports as fatal or
\* abnormal; or abandoned, without envelope and without error, by a worker
\* that acknowledged the stop token while it held the task deferred.
C2_DequeuedTaskFate ==
    \A t \in TaskIds :
        holder[t] # Nobody =>
            /\ nres[t] <= 1
            /\ fate[t] \in {"held", "pushed", "lost", "abandoned"}
            /\ (fate[t] = "held") <=> (HeldCount(t) = 1)
            /\ (fate[t] = "pushed") <=> (nres[t] = 1)
            /\ fate[t] = "lost" =>
                  /\ pc[holder[t]] \in {"crashed", "killed"}
                  /\ poolState = "stopped" => (fatal \/ abnormal)
            /\ fate[t] = "abandoned" =>
                  /\ exitBy[holder[t]] = "stop"
                  /\ acks[holder[t]] = 1
                  /\ arg[holder[t]] = t
                  /\ ~carryon[holder[t]]

\* C2 witness: the pool has stopped without any error, and a task that was
\* dequeued and deferred was abandoned on the stop token.
C2_Witness ==
    /\ poolState = "stopped"
    /\ ~fatal /\ ~abnormal
    /\ \E t \in TaskIds : fate[t] = "abandoned" /\ nres[t] = 0

\* C3: once stop() has been issued every spawned worker is eventually
\* terminated: it has returned from app_processor, died, or was terminated
\* by force at the join timeout.
C3_StopTerminatesAllWorkers ==
    stopIssued ~> (\A w \in Spawned : Terminated(w))

\* C3 witness: stop() was issued with task ids still pending in the send
\* queue, one worker acknowledged the token and returned, another one, stuck
\* in a computation, was terminated by force.
C3_Witness ==
    /\ stopIssued
    /\ \E i \in DOMAIN sendQ : sendQ[i] # None
    /\ \A w \in Spawned : Terminated(w)
    /\ \E w \in Spawned : exitBy[w] = "stop" /\ pc[w] = "exited"
    /\ \E w \in Spawned : pc[w] = "killed"

\* C4 as stated: a call_app_method or set_app_param made while the pool is
\* running fails with the RuntimeError of __check_is_running and leaves the
\* Application unchanged.
C4_NoAppMutationWhileRunning ==
    lastCall.running =>
        (lastCall.outcome = "RuntimeError" /\ ~lastCall.changed)

\* Task t is held by a worker whose last carryon check returned False.
Deferred(t) ==
    \E w \in Spawned :
        arg[w] = t /\ ~carryon[w] /\ pc[w] \in {"poll", "step", "carryon"}

\* multiprocessing_func was called on t and does not return a result.
FuncFailsOn(t) ==
    /\ t = badTask
    /\ \E w \in Spawned : arg[w] = t /\ pc[w] \in {"func", "crashed"}

\* C5: a worker that holds a task deferred by carryon keeps exactly that
\* task id over every step it takes inside its loop; a carryon check made
\* when the input has arrived (carryon returns True) is followed by the
\* multiprocessing_func call on the same id; and, with the input eventually
\* arriving, the task gets its result envelope, unless the worker
\* acknowledges a stop token or is terminated first or multiprocessing_func
\* itself fails on the task.
C5_DeferredTaskIsKeptAndProcessed ==
    /\ [][\A w \in WorkerIds :
            (pc[w] \in {"poll", "step", "carryon"} /\ ~carryon[w]
             /\ pc'[w] \in {"poll", "step", "carryon", "func"})
            => (arg'[w] = arg[w] /\ fate'[arg[w]] = "held")]_vars
    /\ [][\A w \in WorkerIds :
            (pc[w] = "carryon" /\ arg[w] \in avail
             /\ pc'[w] \notin {"carryon", "killed"})
            => (pc'[w] = "func" /\ arg'[w] = arg[w])]_vars
    /\ \A t \in TaskIds :
          Deferred(t) ~>
              (nres[t] = 1 \/ fate[t] \in {"abandoned", "lost"}
               \/ FuncFailsOn(t))

\* C5 witness: a task that was deferred has its result envelope, pushed
\* before any stop.
C5_Witness ==
    \E t \in TaskIds :
        /\ t \in wasDeferred
        /\ nres[t] = 1
        /\ ~stopIssued

\* The tasks worker w has dequeued and not yet answered or given up.
Unprocessed(w) == {t \in TaskIds : holder[t] = w /\ fate[t] = "held"}

\* C6: every task a worker has dequeued and not yet processed is the one in
\* its _arg, so it holds at most one; and a step past line 98 with the last
\* carryon check False removes nothing from the send queue.
C6_AtMostOneHeldTask ==
    /\ [](\A w \in WorkerIds :
            /\ Unprocessed(w) \subseteq {arg[w]}
            /\ Cardinality(Unprocessed(w)) <= 1)
    /\ [][\A w \in WorkerIds :
            (pc[w] = "step" /\ ~carryon[w] /\ pc'[w] # pc[w])
            => (sendQ' = sendQ /\ arg'[w] = arg[w])]_vars

\* C6 witness: a deferring worker went past line 98 while a task id was at
\* the head of the send queue, and left it there.
C6_Witness ==
    \E w \in Spawned :
        /\ pc[w] = "carryon"
        /\ ~carryon[w]
        /\ sendQ # <<>>
        /\ Head(sendQ) \in TaskIds

\* What worker w has taken from the send queue and put on the recv queue.
Dequeued(w) == {t \in TaskIds : holder[t] = w}
Answered(w) == {t \in TaskIds : holder[t] = w /\ nres[t] > 0}

\* C7: a worker at the start of an iteration with a token in the stop queue
\* takes one token, pushes one acknowledgment and leaves the loop; a worker
\* that left by the stop token has pushed exactly one acknowledgment and
\* from then on dequeues nothing, computes nothing and pushes nothing.
C7_StopTokenEndsTheLoop ==
    /\ [](\A w \in WorkerIds :
            /\ acks[w] <= 1
            /\ exitBy[w] = "stop" =>
                  (acks[w] = 1 /\ pc[w] \in {"wait_out", "exited", "killed"}))
    /\ [][\A w \in WorkerIds :
            /\ (pc[w] = "poll" /\ stopQ > 0
                /\ pc'[w] \notin {"poll", "killed"})
               => /\ pc'[w] = "wait_out"
                  /\ exitBy'[w] = "stop"
                  /\ stopQ' = stopQ - 1
                  /\ abortedQ' = abortedQ + 1
                  /\ acks'[w] = acks[w] + 1
            /\ exitBy[w] = "stop"
               => /\ Dequeued(w)' = Dequeued(w)
                  /\ Answered(w)' = Answered(w)
                  /\ pc'[w] \notin {"func", "carryon", "step", "poll"}
                  /\ acks'[w] = acks[w]
                  /\ exitBy'[w] = "stop"]_vars

\* C7 witness: a worker returned after acknowledging the stop token while
\* task ids were still waiting in the send queue.
C7_Witness ==
    \E w \in Spawned :
        /\ exitBy[w] = "stop"
        /\ acks[w] = 1
        /\ pc[w] = "exited"
        /\ \E i \in DOMAIN sendQ : sendQ[i] \in TaskIds

\* C8: every result envelope pushed after stop() was issued is eventually
\* taken by the controller and handed to multiprocessing_store_results;
\* none is left undelivered when the pool has stopped.
C8_ResultsAfterStopAreDelivered ==
    /\ [](poolState = "stopped" =>
             \A t \in afterStop : appStored[t] >= 1)
    /\ \A t \in TaskIds : (t \in afterStop) ~> (appStored[t] >= 1)

\* C8 witness: the pool has stopped and a result pushed after stop() was
\* stored.
C8_Witness ==
    \E t \in TaskIds :
        /\ t \in afterStop
        /\ appStored[t] = 1
        /\ poolState = "stopped"

\* C9: the progress values emitted (numerators over the denominator total)
\* are non-decreasing and lie in [0, 1]; there is one per task result
\* received, none for an end marker; and the value 1.0 is the K-th one.
C9_ProgressMonotoneUpToOne ==
    /\ Len(progressLog) = received
    /\ \A i \in DOMAIN progressLog :
          /\ 0 <= progressLog[i] /\ progressLog[i] <= total
          /\ (progressLog[i] = total) <=> (i = total)
          /\ \A j \in DOMAIN progressLog :
                i <= j => progressLog[i] <= progressLog[j]
    /\ received + CountIn(recvQ, EndMarker) <=
          total + Cardinality({w \in Spawned : exitBy[w] = "sentinel"})

\* C9 witness: all MaxTasks results were received, the last progress value
\* is 1.0, and the end markers of two workers were pushed as well.
C9_Witness ==
    /\ total = MaxTasks
    /\ Len(progressLog) = total
    /\ progressLog[Len(progressLog)] = total
    /\ \A w \in WorkerIds : exitBy[w] = "sentinel"

\* The suspend()/stop() calls made by __check_progress.
AutoCalls == SelectSeq(ctlLog, LAMBDA e : e[2] = "auto")

\* A progress value >= 1 has been emitted.
ProgressOneEmitted ==
    \E i \in DOMAIN progressLog : progressLog[i] >= total

\* C10: when a progress value >= 1 has been emitted the Runner has called
\* suspend() and then stop(), in this order, and the pool reaches the
\* stopped state; the Runner makes no such call while progress is below 1.
C10_AutoSuspendThenStop ==
    /\ [](ProgressOneEmitted =>
             /\ Len(AutoCalls) >= 2
             /\ AutoCalls[1] = <<"suspend", "auto">>
             /\ AutoCalls[2] = <<"stop", "auto">>)
    /\ [](AutoCalls # <<>> => ProgressOneEmitted)
    /\ ProgressOneEmitted ~> (poolState = "stopped")

\* C10 witness: without any call by the user the pool has stopped after
\* the last result.
C10_Witness ==
    /\ poolState = "stopped"
    /\ total = MaxTasks
    /\ received = total
    /\ ctlLog = << <<"suspend", "auto">>, <<"stop", "auto">> >>

\* The workers that took a sentinel from the send queue.
SentinelExits == {w \in Spawned : exitBy[w] = "sentinel"}

\* C11: the send queue holds the K task ids followed by one sentinel per
\* worker; a worker that takes a sentinel pushes one (None, None) envelope
\* and leaves its loop for good, so it takes and pushes exactly one; no
\* sentinel is taken before every task id has been taken; and in a run in
\* which no computation fails and no stop is issued every worker eventually
\* leaves its loop by a sentinel.
C11_EveryWorkerGetsOneSentinel ==
    /\ [](poolState # "idle" =>
             /\ CountIn(sendQ, None) + Cardinality(SentinelExits) = nWorkers
             /\ \A i, j \in DOMAIN sendQ :
                   (sendQ[i] = None /\ i <= j) => sendQ[j] = None
             /\ \A w \in SentinelExits :
                   /\ pc[w] \in {"wait_out", "exited", "killed"}
                   /\ \A t \in Range(to_process) : holder[t] # Nobody)
    /\ [][\A w \in WorkerIds :
            (exitBy[w] # "sentinel" /\ exitBy'[w] = "sentinel")
            => /\ Head(sendQ) = None
               /\ sendQ' = Tail(sendQ)
               /\ recvQ' = Append(recvQ, EndMarker)
               /\ pc'[w] = "wait_out"]_vars
    /\ (poolState # "idle" /\ NoFailure)
          ~> (stopIssued \/ SentinelExits = Spawned)

\* C11 witness: MaxTasks tasks were processed by MaxWorkers workers, no stop
\* was issued, and every worker has left its loop by a sentinel.
C11_Witness ==
    /\ ~stopIssued
    /\ nWorkers = MaxWorkers
    /\ total = MaxTasks
    /\ \A t \in TaskIds : nres[t] = 1
    /\ \A w \in WorkerIds :
          exitBy[w] = "sentinel" /\ pc[w] \in {"wait_out", "exited"}
    /\ sendQ = <<>>

\* C12: wait_for_output_queue defaults to True; with it enabled a worker
\* returns from app_processor only in a step in which the recv queue is
\* empty; with it disabled a worker that has left its loop can return at
\* once, whatever the recv queue holds.
C12_WaitForOutputQueue ==
    /\ [](wait_for_output_queue("unset"))
    /\ [][\A w \in WorkerIds :
            (pc[w] = "wait_out" /\ pc'[w] = "exited" /\ waitForOutput)
            => recvQ = <<>>]_vars
    /\ [](\A w \in WorkerIds :
            (pc[w] = "wait_out" /\ ~waitForOutput)
            => ENABLED app_processor_wait(w))

\* C12 witness: with waiting enabled one worker has returned and another
\* one, out of its loop, is held back by a recv queue that is not empty.
C12_Witness ==
    /\ waitForOutput
    /\ \E w \in Spawned : pc[w] = "exited"
    /\ \E w \in Spawned : pc[w] = "wait_out" /\ recvQ # <<>>

\* The workers killed by an exception of the computation.
Crashed == {w \in Spawned : pc[w] = "crashed"}

HeldPositions == {bufPos[w] : w \in {v \in WorkerIds :
                                        bpc[v] \in {"return", "stored"}}}
QueuedPositions == {bufRecv[i][2] : i \in DOMAIN bufRecv}
Outstanding ==
    Cardinality({w \in WorkerIds : bpc[w] \in {"return", "stored"}})
        + Len(bufRecv)

\* C14: a slot is written only when its flag is 0, and into the first free
\* position; while its flag stays 1 its data does not change, and between
\* the flag's 0 -> 1 and the master's 1 -> 0 exactly one write was made; the
\* results not yet consumed lie at pairwise distinct positions; and what
\* the master reads for a frame is that frame's data.
C14_OccupiedSlotIsNotOverwritten ==
    /\ [](\A s \in Slots : writes[s] = flag[s])
    /\ [](/\ Cardinality(HeldPositions \cup QueuedPositions) = Outstanding
          /\ \A f \in Frames : consumed[f] \in {NoArg, FrameData(f)})
    /\ [][\A s \in Slots :
            (flag[s] = 1 /\ flag'[s] = 1) => slotData'[s] = slotData[s]]_vars
    /\ [][\A w \in WorkerIds :
            (bpc[w] = "write" /\ bpc'[w] = "return")
            => /\ flag[bufPos[w]] = 0
               /\ \A s \in Slots : s < bufPos[w] => flag[s] = 1
               /\ flag' = [flag EXCEPT ![bufPos[w]] = 1]]_vars

\* C14 witness: a consumed slot was used again: every slot is occupied,
\* the slots hold different frames, and a frame was consumed before.
C14_Witness ==
    /\ \A s \in Slots : flag[s] = 1 /\ writes[s] = 1
    /\ \A s, u \in Slots : s # u => slotData[s] # slotData[u]
    /\ \E f \in Frames : consumed[f] = FrameData(f)

\* The states in which a process reads or writes the flag array.
InFlagAccess(p) ==
    IF p = Master THEN mpc = "store" ELSE bpc[p] \in {"scan", "write"}

\* C15: a process that reads or writes the flag array holds the flag lock,
\* so at most one process is in such an access at a time; a flag changes
\* only in a step of the process holding the lock; and no flag update is
\* lost: there are as many flags at 1 as results not yet consumed.
C15_FlagAccessUnderLock ==
    /\ [](\A p \in Procs : InFlagAccess(p) => lock = p)
    /\ [](Cardinality({p \in Procs : InFlagAccess(p)}) <= 1)
    /\ [](Cardinality({s \in Slots : flag[s] = 1}) = Outstanding)
    /\ [][flag' # flag =>
            \E p \in Procs : InFlagAccess(p) /\ lock = p /\ lock' = Nobody]_vars

\* C15 witness: one worker is inside its flag access while another worker
\* and the master, with a result to store, wait for the lock.
C15_Witness ==
    /\ \E w, v \in WorkerIds :
          bpc[w] \in {"scan", "write"} /\ bpc[v] = "acquire"
    /\ bufRecv # <<>>
    /\ mpc = "idle"

\* C16: the position multiprocessing_func returned has its flag at 1 until
\* the master stores the result; the master's store sets that flag to 0 and
\* changes no other flag; a store on a slave-mode instance changes no flag.
C16_StoreResetsTheFlagOnTheMasterOnly ==
    /\ [](\A p \in HeldPositions \cup QueuedPositions : flag[p] = 1)
    /\ [][(mpc = "store" /\ mpc' = "idle")
            => /\ flag[Head(bufRecv)[2]] = 1
               /\ flag' = [flag EXCEPT ![Head(bufRecv)[2]] = 0]]_vars
    /\ [][\A w \in WorkerIds :
            (bpc[w] = "return" /\ bpc'[w] = "stored") => flag' = flag]_vars

\* C16 witness: a slave-mode store has left the flag of its position at 1,
\* and the master has stored a result and freed its slot.
C16_Witness ==
    /\ \E w \in WorkerIds : bpc[w] = "stored" /\ flag[bufPos[w]] = 1
    /\ \E f \in Frames : consumed[f] = FrameData(f)
    /\ \E s \in Slots : flag[s] = 0 /\ slotData[s] # NoArg

\* C17: a writer that reads all flags as 1 stores nothing and tries again;
\* a writer that had to wait writes into a slot whose flag is 0 at that
\* time; and every writer, a waiting one too, eventually completes its
\* write.
C17_FullBufferMakesTheWriterWait ==
    /\ [][\A w \in WorkerIds :
            (bpc[w] = "scan" /\ (\A s \in Slots : flag[s] = 1)
             /\ bpc'[w] # "scan")
            => /\ bpc'[w] = "acquire"
               /\ slotData' = slotData
               /\ flag' = flag
               /\ writes' = writes]_vars
    /\ [][\A w \in WorkerIds :
            (w \in waited /\ bpc[w] = "write" /\ bpc'[w] = "return")
            => /\ flag[bufPos[w]] = 0
               /\ flag'[bufPos[w]] = 1
               /\ slotData'[bufPos[w]] = FrameData(bufFrame[w])]_vars
    /\ \A w \in WorkerIds :
          (bpc[w] \in {"acquire", "scan"}) ~> (bpc[w] = "return")

\* C17 witness: a worker that found the buffer full has completed its
\* write.
C17_Witness ==
    \E w \in WorkerIds :
        /\ w \in waited
        /\ bpc[w] = "return"
        /\ slotData[bufPos[w]] = FrameData(bufFrame[w])

\* The calls of _cycle_pre_run and of _cycle_post_run, in order.
PreRunCalls == <<"pre_run", "get_tasks", "add_tasks", "finalize_tasks",
                 "results_connect", "progress_connect", "start_workers">>
PostRunCalls == <<"join_workers", "post_run", "final_app_state">>

\* C18: a pool that has left the idle state has made the calls of the
\* pre-run cycle in the order pre_run, get_tasks, add_tasks, finalize_tasks,
\* connection of the results signal, start of the workers; when the workers
\* were started the tasks were finalized and the store hook connected, and
\* before that no worker was started; so whenever a worker exists or a
\* result is in flight the task set is finalized and the hook connected.
C18_PreRunOrder ==
    /\ poolState = "idle" =>
          /\ ~finalized /\ ~connected
          /\ runLog = <<>> \/ startError # "none"
    /\ poolState # "idle" =>
          /\ Len(runLog) >= Len(PreRunCalls)
          /\ \A i \in DOMAIN PreRunCalls : runLog[i].call = PreRunCalls[i]
    /\ \A i \in DOMAIN runLog :
          /\ runLog[i].call = "start_workers" =>
                (runLog[i].finalized /\ runLog[i].connected)
          /\ i <= Len(PreRunCalls) => ~runLog[i].started
    /\ ((\E w \in WorkerIds : pc[w] # "unborn") \/ recvQ # <<>>
        \/ received > 0)
          => /\ finalized
             /\ connected
             /\ appPreRun = 1
             /\ to_process = appTasks
             /\ total = Len(appTasks)

\* C18 witness: a worker has pushed a result of a run whose pre-run cycle
\* made exactly the calls above.
C18_Witness ==
    /\ Len(runLog) = Len(PreRunCalls)
    /\ \E t \in TaskIds : nres[t] = 1
    /\ recvQ # <<>>
    /\ total = MaxTasks

\* The value of the Parameter as seen through the emitted snapshot.
SnapshotParam == IF finalState.alias THEN appParam ELSE finalState.param

\* C19: multiprocessing_post_run is called once, when the pool stops, after
\* the join of the workers, all of them terminated; the final state is
\* emitted after post_run; and the emitted snapshot is a copy that no later
\* call on the Runner's Application changes.
C19_PostRunOnceThenSnapshot ==
    /\ [](/\ appPostRun <= 1
          /\ (appPostRun = 1) <=> (poolState = "stopped"))
    /\ [](poolState = "stopped" =>
             /\ Len(runLog) = Len(PreRunCalls) + Len(PostRunCalls)
             /\ \A i \in DOMAIN PostRunCalls :
                   runLog[Len(PreRunCalls) + i].call = PostRunCalls[i]
             /\ \A i \in DOMAIN runLog :
                   /\ runLog[i].call = "post_run" =>
                         (runLog[i].joined /\ runLog[i].post_run = 0)
                   /\ runLog[i].call = "final_app_state" =>
                         runLog[i].post_run = 1
             /\ \A w \in Spawned : Terminated(w)
             /\ finalState.post_run = 1
             /\ ~finalState.alias)
    /\ [][poolState = "stopped" =>
            /\ finalState' = finalState
            /\ SnapshotParam' = SnapshotParam
            /\ appPostRun' = appPostRun]_vars

\* C19 witness: after the pool has stopped the Parameter of the Runner's
\* Application was changed, and the emitted snapshot still has the old
\* value.
C19_Witness ==
    /\ poolState = "stopped"
    /\ appPostRun = 1
    /\ lastCall.op = "set_app_param"
    /\ ~lastCall.running
    /\ finalState.param # appParam

RECURSIVE SumOver(_, _)
\* The sum of f[x] over the elements x of S.
SumOver(f, S) ==
    IF S = {} THEN 0
    ELSE LET x == CHOOSE y \in S : TRUE IN f[x] + SumOver(f, S \ {x})

\* C20: every task result envelope a worker pushed is either still on the
\* recv queue or was handed to multiprocessing_store_results exactly once;
\* the call is made in the very step in which the controller takes the
\* envelope, with the envelope's task id and payload; and there are as
\* many calls as results received.
C20_StoreOnReceipt ==
    /\ [](/\ \A t \in TaskIds :
                /\ appStored[t] + CountIn(recvQ, Envelope(t)) = nres[t]
                /\ appStored[t] = 0 => appResults[t] = NoArg
                /\ appStored[t] > 0 =>
                      appResults[t] = multiprocessing_func(t)
          /\ SumOver(appStored, TaskIds) = received)
    /\ [][(Len(recvQ') < Len(recvQ) /\ Head(recvQ) # EndMarker)
            => /\ appStored' = [appStored EXCEPT ![Head(recvQ)[1]] = @ + 1]
               /\ appResults' = [appResults EXCEPT
                                    ![Head(recvQ)[1]] = Head(recvQ)[2]]
               /\ received' = received + 1]_vars

\* C20 witness: one result was stored on receipt while the pool was
\* running and another result was still waiting on the recv queue.
C20_Witness ==
    /\ poolState = "running"
    /\ \E t \in TaskIds :
          appStored[t] = 1 /\ appResults[t] = multiprocessing_func(t)
    /\ \E u \in TaskIds : appStored[u] = 0 /\ CountIn(recvQ, Envelope(u)) = 1

\* app_processor has built the Application of worker w.
Built(w) == pc[w] # "unborn"

\* The Parameter and the index as the Application of worker w has them.
WorkerParam(w) == IF wApp[w].owner = w THEN wApp[w].param ELSE appParam
WorkerIndex(w) == IF wApp[w].owner = w THEN wApp[w].index ELSE appIndex

\* C21: the Application of a worker is built in the worker from the class,
\* a copy of the Parameters and the config, and is an object of its own: a
\* change of the Runner's Application changes nothing in the Application of
\* a worker; what a worker writes into its Application (pre_cycle) shows
\* neither in the Runner's Application nor in another worker's; and only
\* the worker itself, in its own step, changes its Application.
C21_WorkerApplicationsAreIsolated ==
    /\ [](\A w \in WorkerIds : Built(w) => wApp[w].owner = w)
    /\ [](appIndex = NoArg)
    /\ [][\A w \in WorkerIds :
            Built(w) =>
                /\ WorkerParam(w)' = WorkerParam(w)
                /\ appParam' # appParam => WorkerIndex(w)' = WorkerIndex(w)
                /\ WorkerIndex(w)' # WorkerIndex(w) =>
                      /\ pc[w] = "step" /\ pc'[w] = "carryon"
                      /\ WorkerIndex(w)' = arg'[w]
                      /\ appParam' = appParam
                      /\ appIndex' = appIndex
                      /\ \A v \in WorkerIds \ {w} :
                            Built(v) => WorkerIndex(v)' = WorkerIndex(v)]_vars

\* C21 witness: while the pool is running two workers have prepared their
\* Applications for different indices, and the Parameter of the Runner's
\* Application was changed and differs from the one the workers have.
C21_Witness ==
    /\ poolState = "running"
    /\ \E w, v \in Spawned :
          /\ WorkerIndex(w) = 0 /\ WorkerIndex(v) = 1
          /\ WorkerParam(w) # appParam
          /\ WorkerParam(v) # appParam
    /\ lastCall.op = "set_app_param"

\* C22: sizing fails with the configuration error exactly when not even one
\* dataset of the declared shapes fits into the configured buffer; after
\* the error no slot count is stored, no shared memory is allocated and no
\* worker copy is prepared; shared memory is only allocated after a sizing
\* that succeeded; and a slot count that was stored is at least 1 and fits
\* the buffer.
C22_CapacityErrorBeforeAllocation ==
    /\ prepPc[Master] \in {"sized", "ready", "error"} =>
          ((prepPc[Master] = "error") <=> (shapeSize > budget))
    /\ prepPc[Master] = "error" =>
          /\ buffer_n = 0
          /\ shmCount = 0
          /\ \A p \in Procs : shmOf[p] = NoBlock
          /\ \A w \in WorkerIds : prepPc[w] = "new" /\ pc[w] = "unborn"
    /\ prepPc[Master] \in {"new", "configured"} =>
          (shmCount = 0 /\ buffer_n = 0)
    /\ prepPc[Master] \in {"sized", "ready"} =>
          /\ buffer_n >= 1
          /\ buffer_n * shapeSize <= budget
          /\ (buffer_n + 1) * shapeSize > budget
    /\ (\E w \in WorkerIds : prepPc[w] # "new") => prepPc[Master] = "ready"

\* C22 witness: a buffer of a size that is not 0 was configured, the
\* declared results are larger, and the sizing has failed.
C22_Witness ==
    /\ prepPc[Master] = "error"
    /\ budget > 0
    /\ shapeSize > budget
    /\ shmCount = 0

\* The flag array as process p sees it.
FlagView(p) == shmFlags[shmOf[p]]

\* C27: the instance prepared for a worker refers to the shared memory the
\* master allocated, and no second block is allocated; so the worker and
\* the master see the same flags: a flag the worker sets is set for the
\* master, and a flag the master clears is cleared for the worker.
C27_SlaveAttachesToTheMastersBuffer ==
    /\ [](shmCount <= 1)
    /\ [](\A w \in WorkerIds :
            prepPc[w] = "ready" =>
                /\ shmOf[w] = shmOf[Master]
                /\ shmOf[w] # NoBlock
                /\ FlagView(w) = FlagView(Master))
    /\ [][\A w \in WorkerIds :
            (prepPc[w] = "ready" /\ FlagView(w)' # FlagView(w))
            => FlagView(Master)' = FlagView(w)']_vars
    /\ [][\A w \in WorkerIds :
            (prepPc[w] = "ready" /\ prepPc[Master] = "ready"
             /\ FlagView(Master)' # FlagView(Master))
            => FlagView(w)' = FlagView(Master)']_vars

\* C27 witness: both workers are prepared, one block is allocated, and
\* of two flags set by the workers the master has cleared one.
C27_Witness ==
    /\ \A w \in WorkerIds : prepPc[w] = "ready"
    /\ shmCount = 1
    /\ buffer_n >= 2
    /\ FlagView(Master) = {1}

\* C23: multiprocessing_get_tasks raises its KeyError exactly when the task
\* list of the Application was not set up; raised in the pre-run cycle it
\* ends the cycle after pre_run and get_tasks: no task is added or
\* enqueued, nothing is finalized or connected, no worker is started and
\* the pool does not run.
C23_NoTasksDefinedEndsTheStart ==
    /\ tasksDefined => startError = "none"
    /\ (~tasksDefined /\ appPreRun > 0) => startError = "KeyError"
    /\ startError # "none" =>
          /\ startError = "KeyError"
          /\ poolState = "idle"
          /\ Len(runLog) = 2
          /\ runLog[1].call = "pre_run"
          /\ runLog[2].call = "get_tasks"
          /\ to_process = <<>>
          /\ sendQ = <<>>
          /\ ~finalized /\ ~connected
          /\ \A w \in WorkerIds : pc[w] = "unborn"
          /\ \A t \in TaskIds : fate[t] = "new"

\* C23 witness: the start of a pool of MaxWorkers workers has ended with
\* the KeyError of get_tasks, after the one call of pre_run.
C23_Witness ==
    /\ startError = "KeyError"
    /\ ~tasksDefined
    /\ appPreRun = 1
    /\ nWorkers = MaxWorkers
    /\ \A w \in WorkerIds : pc[w] = "unborn"

C25_InvalidApplicationIsRejected ==
    /\ appValid <=> (AppRunner_init(appValid) = "constructed")
    /\ ~appValid =>
          /\ AppRunner_init(appValid) = "TypeError"
          /\ poolState = "idle"
          /\ runLog = <<>>
          /\ appPreRun = 0
          /\ to_process = <<>>
          /\ sendQ = <<>>
          /\ \A w \in WorkerIds : pc[w] = "unborn"
          /\ lastCall.op = "none"

\* C25 witness: the constructor was called for MaxWorkers workers with an
\* object that is no BaseApp and has raised the TypeError.
C25_Witness ==
    /\ ~appValid
    /\ nWorkers = MaxWorkers
    /\ AppRunner_init(appValid) = "TypeError"
    /\ poolState = "idle"

PoolStates == {"idle", "running", "suspending", "stopped"}

\* The callers of suspend() and stop(): the user, __check_progress at a
\* progress of 1, the pool itself after a fatal error.
Callers == {"user", "auto", "fatal"}

\* C28: the pool state is one of idle, running, suspending, stopped; it
\* changes from idle to running in the step of start(), from running to
\* suspending in a step in which suspend() or stop() is called (by the
\* user, by __check_progress, or after a fatal error), and from suspending
\* to stopped when the stop that was issued has completed; it changes in
\* no other way, and no step of a worker changes it.
C28_PoolStateOwnedByTheController ==
    /\ [](poolState \in PoolStates)
    /\ [][poolState' # poolState =>
            \/ /\ poolState = "idle" /\ poolState' = "running"
               /\ runLog = <<>>
               /\ Len(runLog') = Len(PreRunCalls)
            \/ /\ poolState = "running" /\ poolState' = "suspending"
               /\ Len(ctlLog') > Len(ctlLog)
               /\ ctlLog'[Len(ctlLog) + 1][1] \in {"suspend", "stop"}
               /\ ctlLog'[Len(ctlLog) + 1][2] \in Callers
            \/ /\ poolState = "suspending" /\ poolState' = "stopped"
               /\ stopIssued
               /\ Len(runLog') = Len(runLog) + Len(PostRunCalls)]_vars
    /\ [][(\E w \in WorkerIds :
              pc[w] # "unborn" /\ pc'[w] # pc[w] /\ pc'[w] # "killed")
            => (poolState' = poolState /\ stopIssued' = stopIssued
                /\ ctlLog' = ctlLog)]_vars
    /\ [][(ctlLog' = ctlLog /\ runLog' = runLog)
            => poolState' = poolState]_vars

\* C28 witness: the pool has gone through all four states: the user
\* suspended the running pool, stopped it, and the pool has stopped after a
\* worker had pushed a result.
C28_Witness ==
    /\ poolState = "stopped"
    /\ ctlLog = << <<"suspend", "user">>, <<"stop", "user">> >>
    /\ \E t \in TaskIds : nres[t] = 1

\* C29: every iteration of the loop starts with the poll of the stop
\* queue: a worker gets to the dequeue only from a poll that found no
\* token, to the carryon check only from there, and to the computation
\* only from a carryon check; a worker at the poll with a token in the stop
\* queue acknowledges it and leaves the loop, dequeuing and pushing
\* nothing, whether it is idle or holds a deferred task; and such a worker
\* does eventually acknowledge (or is terminated), without its input ever
\* having to arrive.
C29_StopIsPolledFirst ==
    /\ [][\A w \in WorkerIds :
            (pc[w] = "poll" /\ stopQ > 0 /\ pc'[w] \notin {"poll", "killed"})
            => /\ pc'[w] = "wait_out"
               /\ exitBy'[w] = "stop"
               /\ acks'[w] = acks[w] + 1
               /\ sendQ' = sendQ
               /\ recvQ' = recvQ
               /\ avail' = avail]_vars
    /\ [][\A w \in WorkerIds :
            pc'[w] # pc[w] =>
                /\ pc'[w] = "step" => (pc[w] = "poll" /\ stopQ = 0)
                /\ pc'[w] = "carryon" => pc[w] = "step"
                /\ pc'[w] = "func" => pc[w] = "carryon"
                /\ pc[w] \in {"carryon", "func"} =>
                      pc'[w] \in {"poll", "func", "crashed", "killed"}]_vars
    /\ \A w \in WorkerIds :
          (pc[w] = "poll" /\ stopQ > 0)
              ~> (exitBy[w] = "stop" \/ pc[w] = "killed")

\* C29 witness: a worker that held a task deferred by carryon has
\* acknowledged the stop token and returned, the input of its task still
\* missing, while a task id was still waiting in the send queue.
C29_Witness ==
    \E w \in Spawned :
        /\ exitBy[w] = "stop"
        /\ pc[w] = "exited"
        /\ ~carryon[w]
        /\ arg[w] \in TaskIds \ avail
        /\ \E i \in DOMAIN sendQ : sendQ[i] \in TaskIds

\* C30: a worker that has left its loop without an exception has left it
\* by the stop token or by the sentinel; the step that leaves the loop
\* puts either one acknowledgment on the aborted queue, taking one stop
\* token, or one end marker on the recv queue, taking no stop token,
\* never both; a worker out of its loop signals nothing more; end markers
\* are put in no other step; so a worker has acknowledged once if it left
\* by the token and never otherwise, the acknowledgments and the workers
\* that left by the sentinel are together at most n_workers, and the stop
\* tokens of the workers that left by the sentinel stay in the stop queue.
C30_ExactlyOneExitSignal ==
    /\ [](\A w \in WorkerIds :
            /\ pc[w] \in {"wait_out", "exited"} =>
                  exitBy[w] \in {"stop", "sentinel"}
            /\ acks[w] = (IF exitBy[w] = "stop" THEN 1 ELSE 0))
    /\ [](/\ abortedQ = SumOver(acks, WorkerIds)
          /\ abortedQ + Cardinality(SentinelExits) <= nWorkers
          /\ stopIssued => stopQ >= Cardinality(SentinelExits))
    /\ [][\A w \in WorkerIds :
            (InLoop(w) /\ pc'[w] = "wait_out") =>
                \/ /\ exitBy'[w] = "stop"
                   /\ abortedQ' = abortedQ + 1
                   /\ stopQ' = stopQ - 1
                   /\ recvQ' = recvQ
                \/ /\ exitBy'[w] = "sentinel"
                   /\ recvQ' = Append(recvQ, EndMarker)
                   /\ abortedQ' = abortedQ
                   /\ stopQ' = stopQ]_vars
    /\ [][\A w \in WorkerIds :
            pc[w] \in {"wait_out", "exited"} =>
                /\ exitBy'[w] = exitBy[w]
                /\ acks'[w] = acks[w]
                /\ pc'[w] \in {"wait_out", "exited", "killed"}
                /\ pc'[w] # pc[w] =>
                      (recvQ' = recvQ /\ abortedQ' = abortedQ
                       /\ stopQ' = stopQ /\ sendQ' = sendQ)]_vars
    /\ [][CountIn(recvQ', EndMarker) > CountIn(recvQ, EndMarker) =>
            /\ CountIn(recvQ', EndMarker) = CountIn(recvQ, EndMarker) + 1
            /\ \E w \in WorkerIds :
                  exitBy[w] = "none" /\ exitBy'[w] = "sentinel"]_vars

\* C30 witness: of two workers that have returned one left by the sentinel
\* and one by a stop token; there is one acknowledgment, and a stop token
\* is left in the stop queue.
C30_Witness ==
    /\ nWorkers = MaxWorkers
    /\ \A w \in WorkerIds : pc[w] = "exited"
    /\ \E w, v \in WorkerIds :
          /\ exitBy[w] = "sentinel" /\ acks[w] = 0
          /\ exitBy[v] = "stop" /\ acks[v] = 1
    /\ abortedQ = 1
    /\ stopQ >= 1

\* ------------------------------------------------------------------ C31
\* The user has called suspend() or stop().
UserIntervened == \E i \in DOMAIN ctlLog : ctlLog[i][2] = "user"

\* C31: a run started with an empty task list (total = 0) reaches the
\* stopped state by itself, the Runner's automatic suspend() and stop()
\* being made although no task result arrives; only a run the user
\* suspends or stops is left to the user.
C31_EmptyRunStops ==
    (poolState = "running" /\ finalized /\ total = 0)
        ~> (poolState = "stopped" \/ UserIntervened)

\* ------------------------------------------------------------------ C32
\* The step is a set_app_param call of the user.
SetAppParamStep ==
    /\ lastCall'.op = "set_app_param"
    /\ (lastCall' # lastCall \/ appParam' # appParam)

\* C32: the Parameter value the Application of a worker is built from is
\* the one the Runner's Application has in the pre-run cycle; it is the
\* same for the whole run; a set_app_param call sets the value in the
\* Runner's Application and leaves the workers and their Applications as
\* they are.
C32_WorkersKeepThePreRunSnapshot ==
    /\ [][(poolState = "idle" /\ poolState' = "running") =>
            /\ appParam' = appParam
            /\ \A w \in WorkerIds :
                  w \in Spawned =>
                      (Built(w)' /\ WorkerParam(w)' = appParam)]_vars
    /\ [][\A w \in WorkerIds :
            Built(w) => WorkerParam(w)' = WorkerParam(w)]_vars
    /\ [][SetAppParamStep =>
            /\ appParam' = lastCall'.value
            /\ wApp' = wApp
            /\ workerVars' = workerVars
            /\ poolVars' = poolVars]_vars

\* C32 witness: the Parameter was set to 1 before the start, the workers
\* were built with it, and a set_app_param call made while the pool is
\* running has set it to 0 in the Runner's Application only.
C32_Witness ==
    /\ poolState = "running"
    /\ lastCall.op = "set_app_param"
    /\ lastCall.running
    /\ appParam = 0
    /\ \A w \in Spawned : Built(w) /\ WorkerParam(w) = 1
    /\ \E w \in Spawned : pc[w] = "func"

\* ------------------------------------------------------------------ C33
\* The number of entries <<hook, t>> in the hook log h.
Calls(h, hook, t) == Cardinality({i \in DOMAIN h : h[i] = <<hook, t>>})

\* The hooks that may come right before the i-th entry of the hook log h.
FollowsInOrder(h, i) ==
    LET e == h[i]
        p == h[i - 1]
    IN  CASE e[1] = "pre_run" -> FALSE
          [] e[1] = "pre_cycle" -> p[1] \in {"pre_run", "put"}
          [] e[1] \in {"carryon_true", "carryon_false"} ->
                 p \in {<<"pre_cycle", e[2]>>, <<"carryon_false", e[2]>>}
          [] e[1] = "func" -> p = <<"carryon_true", e[2]>>
          [] e[1] = "put" -> p = <<"func", e[2]>>
          [] OTHER -> FALSE

\* C33: in each worker multiprocessing_pre_run is called once, before
\* anything is dequeued; for a dequeued task t the hooks are called in the
\* order pre_cycle(t), once and not again while t is deferred, then the
\* carryon checks, then func(t) once, right after the first carryon check
\* that returned True, then the put of the envelope of t; no hook of
\* another task comes in between, and a worker that is about to call or
\* has called func(t) has seen carryon return True for t.
C33_HooksInOrder ==
    /\ [](\A w \in WorkerIds :
            /\ Built(w) <=> hooks[w] # <<>>
            /\ Built(w) => hooks[w][1] = <<"pre_run", NoArg>>
            /\ \A i \in DOMAIN hooks[w] : i > 1 => FollowsInOrder(hooks[w], i)
            /\ \A t \in TaskIds :
                  /\ Calls(hooks[w], "pre_cycle", t)
                        = (IF holder[t] = w THEN 1 ELSE 0)
                  /\ Calls(hooks[w], "carryon_true", t) <= 1
                  /\ Calls(hooks[w], "func", t) <= 1
                  /\ Calls(hooks[w], "put", t)
                        = (IF holder[t] = w THEN nres[t] ELSE 0)
                  /\ Calls(hooks[w], "carryon_false", t) >= 1
                        <=> (holder[t] = w /\ t \in wasDeferred)
            /\ pc[w] = "func" =>
                  hooks[w][Len(hooks[w])] = <<"carryon_true", arg[w]>>
            /\ pc[w] = "carryon" =>
                  hooks[w][Len(hooks[w])] \in
                      {<<"pre_cycle", arg[w]>>, <<"carryon_false", arg[w]>>})
    /\ [][\A w \in WorkerIds :
            (pc[w] = "func" /\ pc'[w] # pc[w] /\ pc'[w] # "killed") =>
                /\ Calls(hooks'[w], "func", arg[w]) = 1
                /\ pc'[w] = "poll" =>
                      hooks'[w][Len(hooks'[w])] = <<"put", arg[w]>>]_vars

\* C33 witness: a worker has dequeued both tasks; the first was deferred
\* and then processed, the second processed at once.
C33_Witness ==
    \E w \in Spawned :
        hooks[w] = << <<"pre_run", NoArg>>,
                      <<"pre_cycle", 0>>, <<"carryon_false", 0>>,
                      <<"carryon_true", 0>>, <<"func", 0>>, <<"put", 0>>,
                      <<"pre_cycle", 1>>, <<"carryon_true", 1>>,
                      <<"func", 1>>, <<"put", 1>> >>

\* ------------------------------------------------------------------ C34
\* C34: multiprocessing_post_run is called once, when _join_workers has
\* returned: the workers have ended and every result envelope, also one
\* that was in the recv queue when the pool was suspended and stopped, has
\* been taken and stored; after the call multiprocessing_store_results is
\* not invoked again and nothing is received.
C34_NoStoreAfterPostRun ==
    /\ [](appPostRun <= 1)
    /\ [](appPostRun = 1 =>
            /\ poolState = "stopped"
            /\ recvQ = <<>>
            /\ \A w \in Spawned : Terminated(w)
            /\ connected => \A t \in TaskIds : appStored[t] = nres[t])
    /\ [](\A i \in DOMAIN runLog :
            runLog[i].call = "post_run" => runLog[i].joined)
    /\ [][appPostRun >= 1 =>
            /\ appStored' = appStored
            /\ appResults' = appResults
            /\ received' = received
            /\ recvQ' = recvQ]_vars

\* C34 witness: post_run was called after a stop of the user; a result
\* that was pushed after the stop was stored before the call, and the
\* final state holds it.
C34_Witness ==
    /\ appPostRun = 1
    /\ poolState = "stopped"
    /\ ctlLog = << <<"stop", "user">> >>
    /\ \E t \in TaskIds :
          /\ t \in afterStop
          /\ appStored[t] = 1
          /\ finalState.stored[t] = 1

\* ------------------------------------------------------------------ C35
\* The position at which worker w dequeued task t, among the hooks it has
\* called.
DequeuedAt(w, t) ==
    CHOOSE i \in DOMAIN hooks[w] : hooks[w][i] = <<"pre_cycle", t>>

\* The task ids of the result envelopes in the recv queue, in queue order.
QueuedIds == [i \in {j \in DOMAIN recvQ : recvQ[j] # EndMarker} |->
                 recvQ[i][1]]

\* The controller has taken the result of task t from the recv queue.
Arrived(t) == nres[t] = 1 /\ \A i \in DOMAIN QueuedIds : QueuedIds[i] # t

\* C35: the result envelopes of one worker are in the recv queue, and are
\* taken from it, in the order in which the worker dequeued their task ids:
\* of two results of the same worker the one whose task was dequeued first
\* is ahead in the queue or has arrived before; an envelope is put at the
\* tail and taken from the head; and with one worker the results arrive in
\* the order of submission, the ascending order of the task ids.
C35_ResultsInDequeueOrder ==
    /\ [](\A i, j \in DOMAIN QueuedIds :
            (i < j /\ holder[QueuedIds[i]] = holder[QueuedIds[j]]) =>
                DequeuedAt(holder[QueuedIds[i]], QueuedIds[i])
                    < DequeuedAt(holder[QueuedIds[j]], QueuedIds[j]))
    /\ [](\A t \in TaskIds, j \in DOMAIN QueuedIds :
            (Arrived(t) /\ holder[t] = holder[QueuedIds[j]]) =>
                DequeuedAt(holder[t], t)
                    < DequeuedAt(holder[QueuedIds[j]], QueuedIds[j]))
    /\ [][recvQ' # recvQ =>
            \/ recvQ # <<>> /\ recvQ' = Tail(recvQ)
            \/ \E w \in WorkerIds :
                  recvQ' \in {Append(recvQ, Envelope(arg[w])),
                              Append(recvQ, EndMarker)}]_vars
    /\ [](nWorkers = 1 =>
            /\ \A i, j \in DOMAIN QueuedIds :
                  i < j => QueuedIds[i] < QueuedIds[j]
            /\ \A t \in TaskIds, j \in DOMAIN QueuedIds :
                  Arrived(t) => t < QueuedIds[j])
    /\ [][(nWorkers = 1 /\ received' = received + 1) =>
            \A t \in TaskIds : Arrived(t) => t < Head(recvQ)[1]]_vars

\* C35 witness: a single worker has dequeued task 0 and then task 1, and
\* the two envelopes are in the recv queue in this order.
C35_Witness ==
    /\ nWorkers = 1
    /\ recvQ = <<Envelope(0), Envelope(1)>>
    /\ DequeuedAt(1, 0) < DequeuedAt(1, 1)
    /\ received = 0

\* ------------------------------------------------------------------ C36
\* The object the argument tuple of the Runner gives to the parameter
\* named p of app_processor.
ArgumentFor(p) ==
    BoundTo(processorArgs,
            CHOOSE i \in DOMAIN app_processor_parameters :
                app_processor_parameters[i] = p)

\* C36: every worker the Runner has spawned is called with the send queue
\* as its input queue, the recv queue as its output queue, the stop queue
\* stop() writes to as its stop queue and the aborted queue the controller
\* reads as its aborted queue, followed by the class, the copy of the
\* Parameters and the config of the Application.
C36_WorkersWiredToTheControllersQueues ==
    (\E w \in Spawned : Built(w)) =>
        /\ ArgumentFor("input_queue") = "send"
        /\ ArgumentFor("output_queue") = "recv"
        /\ ArgumentFor("stop_queue") = "stop"
        /\ ArgumentFor("aborted_queue") = "aborted"
        /\ ArgumentFor("app") = "class"
        /\ ArgumentFor("app_params") = "params_copy"
        /\ ArgumentFor("app_config") = "config"

====
